---- MODULE Spec2Model ----
(***************************************************************************)
(* Model of the XSS detection engine (xss_detector.py) and of the state it *)
(* accumulates.  Content is a sequence of one-character strings; the       *)
(* signatures are evaluated by a backtracking matcher with the semantics   *)
(* of Python's re for the constructs the catalog uses.                     *)
(***************************************************************************)
EXTENDS Integers, Sequences, FiniteSets, TLC

\* ------------------------------------------------------------------------
\* Characters
\* ------------------------------------------------------------------------

\* The grave accent (code 96), which a TLA+ string cannot hold.
GRAVE == "U+0060"

\* The printable ASCII characters, code points 32..126, in code order.
Ascii ==
  <<" ","!","\"","#","$","%","&","'","(",")","*","+",",","-",".","/",
    "0","1","2","3","4","5","6","7","8","9",":",";","<","=",">","?",
    "@","A","B","C","D","E","F","G","H","I","J","K","L","M","N","O",
    "P","Q","R","S","T","U","V","W","X","Y","Z","[","\\","]","^","_",
    GRAVE,"a","b","c","d","e","f","g","h","i","j","k","l","m","n","o",
    "p","q","r","s","t","u","v","w","x","y","z","{","|","}","~">>

\* U+FFFD, what bytes.decode('utf-8', 'replace') yields for an invalid byte.
REPLACEMENT == "U+FFFD"

UpperChars == {Ascii[i] : i \in 34..59}
LowerChars == {Ascii[i] : i \in 66..91}
DigitChars == {Ascii[i] : i \in 17..26}
HexChars   == DigitChars \cup {Ascii[i] : i \in 34..39} \cup {Ascii[i] : i \in 66..71}

\* str.lower() on one character, as re.IGNORECASE folds ASCII letters.
tolower == [c \in UpperChars |-> Ascii[(CHOOSE i \in 34..59 : Ascii[i] = c) + 32]]

\* int(h, 16) for one hexadecimal digit.
hexval ==
  [c \in HexChars |->
     IF c \in DigitChars THEN (CHOOSE i \in 17..26 : Ascii[i] = c) - 17
     ELSE IF c \in UpperChars THEN (CHOOSE i \in 34..39 : Ascii[i] = c) - 24
     ELSE (CHOOSE i \in 66..71 : Ascii[i] = c) - 56]

\* The character a decoded byte becomes: an ASCII byte is itself, a byte
\* 0xF8..0xFF is never valid UTF-8 and is replaced by U+FFFD.
chr(b) == IF b >= 32 /\ b <= 126 THEN Ascii[b - 31] ELSE REPLACEMENT

\* ------------------------------------------------------------------------
\* Decoder: urllib.parse.unquote_plus
\* ------------------------------------------------------------------------

\* string.replace('+', ' ')
replace_plus(s) == [i \in 1..Len(s) |-> IF s[i] = "+" THEN " " ELSE s[i]]

\* the least and the greatest element of a non-empty set of numbers
SetMin(S) == CHOOSE x \in S : \A y \in S : x <= y
SetMax(S) == CHOOSE x \in S : \A y \in S : y <= x

\* urllib.parse.unquote: every %XX with two hexadecimal digits becomes the
\* byte XX, decoded as UTF-8 with errors='replace'; a '%' not followed by
\* two hexadecimal digits is kept as it is.  One pass, left to right: the
\* text up to the next escape is copied, the escape decoded, and the pass
\* goes on behind it.
RECURSIVE unquote_from(_, _)
unquote_from(s, i) ==
  LET escapes == {e \in i..(Len(s) - 2) :
                    s[e] = "%" /\ s[e+1] \in HexChars /\ s[e+2] \in HexChars} IN
  IF escapes = {} THEN SubSeq(s, i, Len(s))
  ELSE CHOOSE out \in
         {SubSeq(s, i, e - 1) \o <<chr(16 * hexval[s[e+1]] + hexval[s[e+2]])>>
            \o unquote_from(s, e + 3) : e \in {SetMin(escapes)}} : TRUE

\* variant of unquote: decoding is repeated until nothing is left to decode
RECURSIVE unquote_repeated(_)
unquote_repeated(s) ==
  LET decoded == unquote_from(s, 1) IN
  IF decoded = s THEN s ELSE unquote_repeated(decoded)

unquote(s) == unquote_from(s, 1)

\* variant of unquote_plus: a second decoding pass
unquote_plus_twice(s) == unquote(unquote(replace_plus(s)))

\* string = string.replace('+', ' '); return unquote(string)
unquote_plus(s) == unquote(replace_plus(s))

\* ------------------------------------------------------------------------
\* PatternCatalog: the compiled signatures and the matcher
\* ------------------------------------------------------------------------

WordChars  == UpperChars \cup LowerChars \cup DigitChars \cup {"_"}
SpaceChars == {" "}

\* One element of a signature: a character class and its quantifier.
Lit(str)  == [i \in 1..Len(str) |-> [k |-> "lit", c |-> str[i], q |-> "one"]]
Cls(k, q) == <<[k |-> k, c |-> "", q |-> q]>>
WS        == Cls("space", "star")             \* \s*
NotGt     == Cls("notgt", "star")             \* [^>]*

fold(ch) == IF ch \in UpperChars THEN tolower[ch] ELSE ch

\* Does character ch belong to the class of element e (re.IGNORECASE)?
InClass(ch, e) ==
  CASE e.k = "lit"   -> fold(ch) = fold(e.c)
    [] e.k = "notgt" -> ch # ">"
    [] e.k = "dot"   -> ch # "\n"
    [] e.k = "word"  -> ch \in WordChars
    [] e.k = "space" -> ch \in SpaceChars

\* self.xss_patterns: the signatures as written, index 0 first (position in
\* the tuple = pattern_id + 1).
xss_patterns ==
  << "<script[^>]*>.*?</script>", "<script[^>]*>", "javascript:",
     "on\\w+\\s*=", "onerror\\s*=", "onload\\s*=", "onclick\\s*=", "onmouseover\\s*=",
     "alert\\s*\\(", "prompt\\s*\\(", "confirm\\s*\\(",
     "document\\.cookie", "document\\.write", "eval\\s*\\(",
     "<iframe[^>]*>", "<object[^>]*>", "<embed[^>]*>", "<img[^>]*onerror", "<svg[^>]*onload",
     "data:\\s*text/html", "vbscript:", "livescript:",
     "String\\.fromCharCode", "unescape\\s*\\(", "setTimeout\\s*\\(", "setInterval\\s*\\(" >>

\* self.compiled_patterns: re.compile(pattern, re.IGNORECASE) of each
\* signature, as the sequence of its elements.
compiled_patterns ==
  << Lit(<<"<","s","c","r","i","p","t">>) \o NotGt \o Lit(<<">">>) \o Cls("dot", "lazy") \o Lit(<<"<","/","s","c","r","i","p","t",">">>),
     Lit(<<"<","s","c","r","i","p","t">>) \o NotGt \o Lit(<<">">>),
     Lit(<<"j","a","v","a","s","c","r","i","p","t",":">>),
     Lit(<<"o","n">>) \o Cls("word", "plus") \o WS \o Lit(<<"=">>),
     Lit(<<"o","n","e","r","r","o","r">>) \o WS \o Lit(<<"=">>),
     Lit(<<"o","n","l","o","a","d">>) \o WS \o Lit(<<"=">>),
     Lit(<<"o","n","c","l","i","c","k">>) \o WS \o Lit(<<"=">>),
     Lit(<<"o","n","m","o","u","s","e","o","v","e","r">>) \o WS \o Lit(<<"=">>),
     Lit(<<"a","l","e","r","t">>) \o WS \o Lit(<<"(">>),
     Lit(<<"p","r","o","m","p","t">>) \o WS \o Lit(<<"(">>),
     Lit(<<"c","o","n","f","i","r","m">>) \o WS \o Lit(<<"(">>),
     Lit(<<"d","o","c","u","m","e","n","t",".","c","o","o","k","i","e">>),
     Lit(<<"d","o","c","u","m","e","n","t",".","w","r","i","t","e">>),
     Lit(<<"e","v","a","l">>) \o WS \o Lit(<<"(">>),
     Lit(<<"<","i","f","r","a","m","e">>) \o NotGt \o Lit(<<">">>),
     Lit(<<"<","o","b","j","e","c","t">>) \o NotGt \o Lit(<<">">>),
     Lit(<<"<","e","m","b","e","d">>) \o NotGt \o Lit(<<">">>),
     Lit(<<"<","i","m","g">>) \o NotGt \o Lit(<<"o","n","e","r","r","o","r">>),
     Lit(<<"<","s","v","g">>) \o NotGt \o Lit(<<"o","n","l","o","a","d">>),
     Lit(<<"d","a","t","a",":">>) \o WS \o Lit(<<"t","e","x","t","/","h","t","m","l">>),
     Lit(<<"v","b","s","c","r","i","p","t",":">>),
     Lit(<<"l","i","v","e","s","c","r","i","p","t",":">>),
     Lit(<<"S","t","r","i","n","g",".","f","r","o","m","C","h","a","r","C","o","d","e">>),
     Lit(<<"u","n","e","s","c","a","p","e">>) \o WS \o Lit(<<"(">>),
     Lit(<<"s","e","t","T","i","m","e","o","u","t">>) \o WS \o Lit(<<"(">>),
     Lit(<<"s","e","t","I","n","t","e","r","v","a","l">>) \o WS \o Lit(<<"(">>) >>

\* Length of the longest run of characters of class e in s from pos on.
Run(e, s, pos) ==
  IF pos > Len(s) THEN 0
  ELSE (CHOOSE p \in pos..(Len(s) + 1) :
          /\ p > Len(s) \/ ~InClass(s[p], e)
          /\ \A q \in pos..(p - 1) : InClass(s[q], e)) - pos

\* re's backtracking match of elements i.. of pat against s at pos: the
\* position after the match the engine prefers, or 0 when there is none.
RECURSIVE MatchFrom(_, _, _, _), Greedy(_, _, _, _, _, _), Lazy(_, _, _, _, _, _)
MatchFrom(pat, i, s, pos) ==
  IF i > Len(pat) THEN pos
  ELSE LET e == pat[i] IN
    CASE e.q = "one"  -> IF pos <= Len(s) /\ InClass(s[pos], e)
                         THEN MatchFrom(pat, i + 1, s, pos + 1) ELSE 0
      [] e.q = "star" -> Greedy(pat, i, s, pos, Run(e, s, pos), 0)
      [] e.q = "plus" -> Greedy(pat, i, s, pos, Run(e, s, pos), 1)
      [] e.q = "lazy" -> Lazy(pat, i, s, pos, 0, Run(e, s, pos))

\* greedy quantifier: longest repetition first, giving back one at a time:
\* the longest of n down to least repetitions behind which the rest matches
Greedy(pat, i, s, pos, n, least) ==
  LET fits == {k \in least..n : MatchFrom(pat, i + 1, s, pos + k) # 0} IN
  IF fits = {} THEN 0 ELSE MatchFrom(pat, i + 1, s, pos + SetMax(fits))

\* lazy quantifier (.*?): shortest repetition first
Lazy(pat, i, s, pos, n, most) ==
  LET fits == {k \in n..most : MatchFrom(pat, i + 1, s, pos + k) # 0} IN
  IF fits = {} THEN 0 ELSE MatchFrom(pat, i + 1, s, pos + SetMin(fits))

\* pattern.findall(s): the non-overlapping matches, scanning left to right:
\* the match at the first position from start on that has one, then the
\* matches behind its end.
RECURSIVE findall_from(_, _, _)
findall_from(pat, s, start) ==
  LET starts == {p \in start..Len(s) : MatchFrom(pat, 1, s, p) # 0} IN
  IF starts = {} THEN <<>>
  ELSE CHOOSE out \in
         {<<SubSeq(s, p, MatchFrom(pat, 1, s, p) - 1)>>
            \o findall_from(pat, s, MatchFrom(pat, 1, s, p)) : p \in {SetMin(starts)}} : TRUE

findall(pat, s) == findall_from(pat, s, 1)


\* ------------------------------------------------------------------------
\* Program constants
\* ------------------------------------------------------------------------

MaxMatches == 5        \* matches[:5]
SampleLen  == 200      \* decoded_content[:200]
RecentLen  == 10       \* self.attack_log[-10:]
MinLength  == 10       \* len(http_data) < 10

\* ------------------------------------------------------------------------
\* Controller: the text of a captured packet
\* ------------------------------------------------------------------------

\* s.startswith(prefix)
startswith(s, prefix) ==
  Len(prefix) <= Len(s) /\ SubSeq(s, 1, Len(prefix)) = prefix

\* s.find(sub) from position i on, counting from 1: 0 when sub is not there
find(s, sub, i) ==
  LET found == {p \in i..(Len(s) - Len(sub) + 1) : SubSeq(s, p, p + Len(sub) - 1) = sub} IN
  IF found = {} THEN 0 ELSE SetMin(found)

\* s.split(sep)
RECURSIVE split(_, _)
split(s, sep) ==
  CHOOSE parts \in
    {IF at = 0 THEN <<s>>
     ELSE CHOOSE more \in
            {<<SubSeq(s, 1, at - 1)>> \o split(rest, sep) :
               rest \in {SubSeq(s, at + Len(sep), Len(s))}} : TRUE
       : at \in {find(s, sep, 1)}} : TRUE

\* s.strip()
RECURSIVE strip(_)
strip(s) ==
  IF s = <<>> THEN s
  ELSE IF s[1] \in SpaceChars \/ s[Len(s)] \in SpaceChars
       THEN CHOOSE out \in
              {strip(t) : t \in {IF s[1] \in SpaceChars THEN Tail(s)
                                 ELSE SubSeq(s, 1, Len(s) - 1)}} : TRUE
       ELSE s

\* headers[name] = value on the dict headers, kept as the sequence of its
\* items in insertion order: a name already there keeps its place
RECURSIVE dict_set(_, _, _)
dict_set(headers, name, value) ==
  IF headers = <<>> THEN <<[name |-> name, value |-> value]>>
  ELSE IF Head(headers).name = name
       THEN <<[name |-> name, value |-> value]>> \o Tail(headers)
       ELSE CHOOSE out \in
              {<<Head(headers)>> \o dict_set(rest, name, value) :
                 rest \in {Tail(headers)}} : TRUE

\* the separators the controller looks for: a backslash followed by n, and
\* backslash r backslash n twice, as written in its source
LineSeparator == <<"\\","n">>
BodySeparator == <<"\\","r","\\","n","\\","r","\\","n">>

\* one turn of the loop over lines[1:] of _analyze_http_request on the
\* accumulator acc = [headers, body, body_start]
parse_line(acc, line) ==
  IF acc.body_start
  THEN [acc EXCEPT !.body = @ \o line \o LineSeparator]
  ELSE IF strip(line) = <<>>
  THEN [acc EXCEPT !.body_start = TRUE]
  ELSE CHOOSE out \in
         {IF at = 0 THEN acc
          ELSE [acc EXCEPT !.headers =
                  dict_set(@, strip(SubSeq(line, 1, at - 1)),
                              strip(SubSeq(line, at + 1, Len(line))))]
            : at \in {find(line, <<":">>, 1)}} : TRUE

\* the loop from lines[i] on
RECURSIVE parse_lines(_, _, _)
parse_lines(lines, i, acc) ==
  IF i > Len(lines) THEN acc
  ELSE CHOOSE out \in
         {parse_lines(lines, i + 1, next) : next \in {parse_line(acc, lines[i])}} : TRUE

\* the parsing part of _analyze_http_request: the request line split on
\* spaces, then headers and body; ok is false when the request line has
\* fewer than three parts and the method returns
parse_request(http_data) ==
  CHOOSE p \in
    {IF Len(parts) < 3
     THEN [ok |-> FALSE, method |-> <<>>, url |-> <<>>, headers |-> <<>>, body |-> <<>>]
     ELSE CHOOSE parsed \in
            {[ok |-> TRUE, method |-> parts[1], url |-> parts[2],
              headers |-> rest.headers, body |-> rest.body] :
               rest \in {parse_lines(lines, 2, [headers |-> <<>>, body |-> <<>>,
                                                body_start |-> FALSE])}} : TRUE
       : lines \in {split(http_data, LineSeparator)},
         parts \in {split(request_line, <<" ">>) :
                      request_line \in {split(http_data, LineSeparator)[1]}}} : TRUE

\* the methods a request starts with
RequestMethods == { <<"G","E","T"," ">>, <<"P","O","S","T"," ">>, <<"P","U","T"," ">>, <<"D","E","L","E","T","E"," ">>, <<"H","E","A","D"," ">>, <<"O","P","T","I","O","N","S"," ">> }

\* what _analyze_http_packet does with the text of a payload: nothing, the
\* analysis of a request or the analysis of a response
packet_kind(http_data) ==
  IF http_data = <<>> \/ Len(http_data) < MinLength THEN "ignored"
  ELSE IF \E m \in RequestMethods : startswith(http_data, m) THEN "request"
  ELSE IF find(http_data, <<"H","T","T","P","/">>, 1) # 0 THEN "response"
  ELSE "ignored"

\* the body _analyze_http_response hands to detect_xss: what follows the
\* first four characters of the separator; found is false without separator
response_body(http_data) ==
  LET body_start == find(http_data, BodySeparator, 1) IN
  IF body_start = 0 THEN [found |-> FALSE, body |-> <<>>]
  ELSE [found |-> TRUE, body |-> SubSeq(http_data, body_start + 4, Len(http_data))]

\* ------------------------------------------------------------------------
\* Inputs
\* ------------------------------------------------------------------------

MaxLog     == 2        \* detections after which Spec takes no further call
MaxLongLog == 11       \* detections after which SpecLong takes no further call
MaxSuiteLog == 2       \* detections after which SpecSuite takes no further call
MaxMatched == 2        \* most signatures in one argument of _calculate_risk_level
MaxConcatLog == 2      \* detections after which SpecConcat takes no further call
MaxSaved   == 2        \* detections, and saves, after which SpecSave takes no more of them
MaxPackets == 1        \* packets counted after which SpecController takes no further packet
MaxHandled == 1        \* detections after which SpecController calls detect_xss no more
MaxSized   == 3        \* detections after which SpecSized takes no further call
MaxThreads == 2        \* threads that call detect_xss on the one detector in SpecThreads
MaxUps     == 1        \* ConnectionUp events SpecController takes

\* arguments of detect_xss(content, source_ip, url)
DetectCalls ==
  { [content |-> <<>>,                              source_ip |-> "10.0.0.1", url |-> <<"/","s","e","a","r","c","h">>],
    [content |-> <<"1","2","3","4","5","6">>,                        source_ip |-> "10.0.0.1", url |-> <<"/","s","e","a","r","c","h">>],
    [content |-> <<"n","o","r","m","a","l"," ","s","e","a","r","c","h"," ","q","u","e","r","y">>,           source_ip |-> "10.0.0.1", url |-> <<"/","s","e","a","r","c","h">>],
    [content |-> <<"%","2","5","6","1","l","e","r","t","(","1",")">>,                  source_ip |-> "10.0.0.2", url |-> <<"/","s","e","a","r","c","h">>],
    [content |-> <<"<","s","c","r","i","p","t",">">>,                      source_ip |-> "10.0.0.1", url |-> <<"/","a">>],
    [content |-> <<"<","s","c","r","i","p","t",">","a","l","e","r","t","(","'","X","S","S","'",")","<","/","s","c","r","i","p","t",">">>, source_ip |-> "10.0.0.1", url |-> <<"/","s","e","a","r","c","h">>],
    [content |-> <<"a","l","e","r","t","(","1",")">>,                      source_ip |-> "10.0.0.2", url |-> <<"/","s","e","a","r","c","h">>],
    [content |-> <<"<","i","m","g"," ","s","r","c","=","x"," ","o","n","e","r","r","o","r","=","a","l","e","r","t","(","1",")",">">>,  source_ip |-> "10.0.0.2", url |-> <<"/","a">>],
    [content |-> <<"u","n","e","s","c","a","p","e","(","x",")">>,                   source_ip |-> "10.0.0.1", url |-> <<"/","s","e","a","r","c","h">>],
    [content |-> <<"%","3","C","S","c","R","i","P","t","%","3","E">>,                  source_ip |-> "10.0.0.2", url |-> <<"/","s","e","a","r","c","h">>],
    [content |-> <<"<","i","f","r","a","m","e"," ","s","r","c","=","a",">">>,                source_ip |-> "10.0.0.1", url |-> <<"/","a">>],
    [content |-> <<"o","n","l","o","a","d","+","=","1">>,                     source_ip |-> "10.0.0.2", url |-> <<"/","s","e","a","r","c","h">>] }

\* arguments of detect_xss in the long runs
LongCalls ==
  { [content |-> <<"<","s","c","r","i","p","t",">","a","l","e","r","t","(","'","X","S","S","'",")","<","/","s","c","r","i","p","t",">">>, source_ip |-> "10.0.0.1", url |-> <<"/","s","e","a","r","c","h">>] }

\* arguments of analyze_http_request(method, url, headers, body, source_ip);
\* headers is the dict as the sequence of its items in insertion order
RequestCalls ==
  { [method |-> "GET", url |-> <<"/","s","e","a","r","c","h","?","q","=","<","s","v","g"," ","o","n","l","o","a","d","=","a","l","e","r","t","(","1",")",">">>, headers |-> <<>>,
     body |-> <<>>, source_ip |-> "10.0.0.2"],
    [method |-> "POST", url |-> <<"/","c","o","m","m","e","n","t">>,
     headers |-> <<[name |-> <<"U","s","e","r","-","A","g","e","n","t">>, value |-> <<"M","o","z","i","l","l","a">>]>>,
     body |-> <<"c","o","m","m","e","n","t","=","h","e","l","l","o"," ","w","o","r","l","d">>, source_ip |-> "10.0.0.3"],
    [method |-> "POST", url |-> <<"/","c","o","m","m","e","n","t">>,
     headers |-> <<[name |-> <<"U","s","e","r","-","A","g","e","n","t">>, value |-> <<"M","o","z","i","l","l","a">>]>>,
     body |-> <<"<","s","c","r","i","p","t",">","a","l","e","r","t","(","'","X","S","S","'",")","<","/","s","c","r","i","p","t",">">>, source_ip |-> "10.0.0.3"],
    [method |-> "GET", url |-> <<"/","c","o","m","m","e","n","t">>,
     headers |-> <<[name |-> <<"u","s","e","r","-","a","g","e","n","t">>, value |-> <<"<","s","c","r","i","p","t",">">>],
                   [name |-> <<"X","-","C","u","s","t","o","m">>,   value |-> <<"a","l","e","r","t","(","1",")">>],
                   [name |-> <<"R","e","f","e","r","e","r">>,    value |-> <<"a","l","e","r","t","(","1",")">>]>>,
     body |-> <<>>, source_ip |-> "10.0.0.2"],
    [method |-> "GET", url |-> <<"/","c","o","m","m","e","n","t">>,
     headers |-> <<[name |-> <<"R","e","f","e","r","e","r">>, value |-> <<"<","s","c","r","i","p","t",">">>]>>,
     body |-> <<>>, source_ip |-> "10.0.0.3"],
    [method |-> "GET", url |-> <<"/","c","o","m","m","e","n","t">>,
     headers |-> <<[name |-> <<"X","-","C","u","s","t","o","m">>, value |-> <<"<","s","c","r","i","p","t",">">>],
                   [name |-> <<"C","o","o","k","i","e">>,   value |-> <<"<","i","m","g"," ","s","r","c","=","x"," ","o","n","e","r","r","o","r","=","a","l","e","r","t","(","1",")",">">>]>>,
     body |-> <<>>, source_ip |-> "10.0.0.2"],
    [method |-> "POST", url |-> <<"/","s","e","a","r","c","h","?","q","=","<","s","v","g"," ","o","n","l","o","a","d","=","a","l","e","r","t","(","1",")",">">>,
     headers |-> <<[name |-> <<"X","-","F","o","r","w","a","r","d","e","d","-","F","o","r">>, value |-> <<"u","n","e","s","c","a","p","e","(","x",")">>]>>,
     body |-> <<"<","i","f","r","a","m","e"," ","s","r","c","=","a",">">>, source_ip |-> "10.0.0.3"] }

\* XSSTestSuite.xss_payloads, in order
xss_payloads ==
  << <<"<","s","c","r","i","p","t",">","a","l","e","r","t","(","'","X","S","S","'",")","<","/","s","c","r","i","p","t",">">>,
     <<"<","s","c","r","i","p","t",">","a","l","e","r","t","(","1",")","<","/","s","c","r","i","p","t",">">>,
     <<"<","s","c","r","i","p","t",">","a","l","e","r","t","(","d","o","c","u","m","e","n","t",".","c","o","o","k","i","e",")","<","/","s","c","r","i","p","t",">">>,
     <<"j","a","v","a","s","c","r","i","p","t",":","a","l","e","r","t","(","'","X","S","S","'",")">>,
     <<"j","a","v","a","s","c","r","i","p","t",":","a","l","e","r","t","(","1",")">>,
     <<"j","a","v","a","s","c","r","i","p","t",":","d","o","c","u","m","e","n","t",".","l","o","c","a","t","i","o","n","=","'","h","t","t","p",":","/","/","a","t","t","a","c","k","e","r",".","c","o","m","/","s","t","e","a","l","?","c","o","o","k","i","e","=","'","+","d","o","c","u","m","e","n","t",".","c","o","o","k","i","e">>,
     <<"<","i","m","g"," ","s","r","c","=","x"," ","o","n","e","r","r","o","r","=","a","l","e","r","t","(","'","X","S","S","'",")",">">>,
     <<"<","s","v","g"," ","o","n","l","o","a","d","=","a","l","e","r","t","(","'","X","S","S","'",")",">">>,
     <<"<","b","o","d","y"," ","o","n","l","o","a","d","=","a","l","e","r","t","(","'","X","S","S","'",")",">">>,
     <<"<","d","i","v"," ","o","n","c","l","i","c","k","=","a","l","e","r","t","(","'","X","S","S","'",")",">","C","l","i","c","k"," ","m","e","<","/","d","i","v",">">>,
     <<"<","i","n","p","u","t"," ","o","n","f","o","c","u","s","=","a","l","e","r","t","(","'","X","S","S","'",")"," ","a","u","t","o","f","o","c","u","s",">">>,
     <<"<","i","f","r","a","m","e"," ","s","r","c","=","'","j","a","v","a","s","c","r","i","p","t",":","a","l","e","r","t","(","1",")","'",">","<","/","i","f","r","a","m","e",">">>,
     <<"<","o","b","j","e","c","t"," ","d","a","t","a","=","'","j","a","v","a","s","c","r","i","p","t",":","a","l","e","r","t","(","1",")","'",">","<","/","o","b","j","e","c","t",">">>,
     <<"<","e","m","b","e","d"," ","s","r","c","=","'","j","a","v","a","s","c","r","i","p","t",":","a","l","e","r","t","(","1",")","'",">">>,
     <<"<","s","c","r","i","p","t",">","e","v","a","l","(","a","t","o","b","(","'","Y","W","x","l","c","n","Q","o","J","1","h","T","U","y","c","p","O","w","=","=","'",")",")","<","/","s","c","r","i","p","t",">">>,
     <<"<","s","c","r","i","p","t",">","s","e","t","T","i","m","e","o","u","t","(","'","a","l","e","r","t","(","1",")","'",",","1","0","0","0",")","<","/","s","c","r","i","p","t",">">>,
     <<"<","s","c","r","i","p","t",">","S","t","r","i","n","g",".","f","r","o","m","C","h","a","r","C","o","d","e","(","9","7",",","1","0","8",",","1","0","1",",","1","1","4",",","1","1","6",",","4","0",",","4","9",",","4","1",")","<","/","s","c","r","i","p","t",">">>,
     <<"<","S","c","R","i","P","t",">","a","l","e","r","t","(","'","X","S","S","'",")","<","/","S","c","R","i","P","t",">">>,
     <<"<","s","c","r","i","p","t",">","a","l","e","r","t","(","'","X","S","S","'",")",";","/","/","<","/","s","c","r","i","p","t",">">>,
     <<"<","s","c","r","i","p","t",">","/","*","*","/","a","l","e","r","t","(","'","X","S","S","'",")","/","*","*","/","<","/","s","c","r","i","p","t",">">>,
     <<"%","3","C","s","c","r","i","p","t","%","3","E","a","l","e","r","t","(","'","X","S","S","'",")","%","3","C","/","s","c","r","i","p","t","%","3","E">>,
     <<"%","3","C","i","m","g","%","2","0","s","r","c","=","x","%","2","0","o","n","e","r","r","o","r","=","a","l","e","r","t","(","'","X","S","S","'",")","%","3","E">>,
     <<"%","2","5","3","C","s","c","r","i","p","t","%","2","5","3","E","a","l","e","r","t","(","'","X","S","S","'",")","%","2","5","3","C","/","s","c","r","i","p","t","%","2","5","3","E">>,
     <<"'",";","a","l","e","r","t","(","'","X","S","S","'",")",";","/","/">>,
     <<"\"",";","a","l","e","r","t","(","'","X","S","S","'",")",";","/","/">>,
     <<"'","-","a","l","e","r","t","(","'","X","S","S","'",")","-","'">>,
     <<"<","s","t","y","l","e",">","@","i","m","p","o","r","t","'","j","a","v","a","s","c","r","i","p","t",":","a","l","e","r","t","(","1",")","'",";","<","/","s","t","y","l","e",">">>,
     <<"<","s","t","y","l","e",">","b","o","d","y","{","b","a","c","k","g","r","o","u","n","d",":","u","r","l","(","'","j","a","v","a","s","c","r","i","p","t",":","a","l","e","r","t","(","1",")","'",")","}","<","/","s","t","y","l","e",">">>,
     <<"<","i","f","r","a","m","e"," ","s","r","c","=","'","d","a","t","a",":","t","e","x","t","/","h","t","m","l",",","<","s","c","r","i","p","t",">","a","l","e","r","t","(","1",")","<","/","s","c","r","i","p","t",">","'",">","<","/","i","f","r","a","m","e",">">>,
     <<"j","a","v","a","s","c","r","i","p","t",":","/","*","-","-",">","<","/","t","i","t","l","e",">","<","/","s","t","y","l","e",">","<","/","t","e","x","t","a","r","e","a",">","<","/","s","c","r","i","p","t",">","<","/","x","m","p",">","<","s","v","g","/","o","n","l","o","a","d","=","'","+","/","\"","/","+","/","o","n","m","o","u","s","e","o","v","e","r","=","1","/","+","/","[","*","/","[","]","/","+","a","l","e","r","t","(","1",")","/","/","'",">">>,
     <<"<","s","c","r","i","p","t",">","f","e","t","c","h","(","'","/","a","p","i","/","c","o","n","t","r","o","l","?","a","c","t","i","o","n","=","r","e","b","o","o","t","'",")","<","/","s","c","r","i","p","t",">">>,
     <<"<","i","m","g"," ","s","r","c","=","x"," ","o","n","e","r","r","o","r","=","f","e","t","c","h","(","'","/","a","p","i","/","s","e","t","t","i","n","g","s","'",",","{","m","e","t","h","o","d",":","'","P","O","S","T","'",",","b","o","d","y",":","'","a","d","m","i","n","=","t","r","u","e","'","}",")",">">>,
     <<"<","s","c","r","i","p","t",">","n","a","v","i","g","a","t","o","r",".","s","e","n","d","B","e","a","c","o","n","(","'","/","a","p","i","/","d","a","t","a","'",",","'","s","t","o","l","e","n","=","'","+","d","o","c","u","m","e","n","t",".","c","o","o","k","i","e",")","<","/","s","c","r","i","p","t",">">> >>

\* XSSTestSuite.safe_payloads, in order
safe_payloads ==
  << <<"n","o","r","m","a","l"," ","s","e","a","r","c","h"," ","q","u","e","r","y">>,
     <<"t","e","m","p","e","r","a","t","u","r","e"," ","s","e","n","s","o","r"," ","d","a","t","a">>,
     <<"d","e","v","i","c","e"," ","s","t","a","t","u","s"," ","u","p","d","a","t","e">>,
     <<"u","s","e","r"," ","p","r","e","f","e","r","e","n","c","e","s">>,
     <<"c","o","n","f","i","g","u","r","a","t","i","o","n"," ","s","e","t","t","i","n","g","s">>,
     <<"H","e","l","l","o"," ","W","o","r","l","d">>,
     <<"1","2","3","4","5","6">>,
     <<"<","b",">","B","o","l","d"," ","t","e","x","t","<","/","b",">">>,
     <<"e","m","a","i","l","@","e","x","a","m","p","l","e",".","c","o","m">>,
     <<"h","t","t","p",":","/","/","e","x","a","m","p","l","e",".","c","o","m">> >>

\* str(i) of the list indices i = 0, 1, ...: decimal[i + 1] = str(i)
decimal ==
  << <<"0">>, <<"1">>, <<"2">>, <<"3">>, <<"4">>, <<"5">>, <<"6">>, <<"7">>, <<"8">>, <<"9">>, <<"1","0">>, <<"1","1">>, <<"1","2">>, <<"1","3">>, <<"1","4">>, <<"1","5">>, <<"1","6">>, <<"1","7">>, <<"1","8">>, <<"1","9">>, <<"2","0">>, <<"2","1">>, <<"2","2">>, <<"2","3">>, <<"2","4">>, <<"2","5">>, <<"2","6">>, <<"2","7">>, <<"2","8">>, <<"2","9">>, <<"3","0">>, <<"3","1">>, <<"3","2">> >>

\* the calls of XSSTestSuite.test_detection_accuracy:
\* detect_xss(payload, "127.0.0.1", f"/test/{i}") and
\* detect_xss(payload, "127.0.0.1", f"/safe/{i}")
SuiteCalls ==
  {[content |-> xss_payloads[i], source_ip |-> "127.0.0.1", url |-> <<"/","t","e","s","t","/">> \o decimal[i]]
     : i \in 1..Len(xss_payloads)}
  \cup
  {[content |-> safe_payloads[i], source_ip |-> "127.0.0.1", url |-> <<"/","s","a","f","e","/">> \o decimal[i]]
     : i \in 1..Len(safe_payloads)}

\* the request of the long runs: URL, one inspected header and body all carry
\* a payload
LongRequest ==
  [method |-> "POST", url |-> <<"/","s","e","a","r","c","h","?","q","=","<","s","v","g"," ","o","n","l","o","a","d","=","a","l","e","r","t","(","1",")",">">>,
   headers |-> <<[name |-> <<"X","-","F","o","r","w","a","r","d","e","d","-","F","o","r">>, value |-> <<"u","n","e","s","c","a","p","e","(","x",")">>]>>,
   body |-> <<"<","i","f","r","a","m","e"," ","s","r","c","=","a",">">>, source_ip |-> "10.0.0.3"]

\* arguments of detect_xss with encoded content: encoded twice, encoded once,
\* an escape of an invalid byte, escapes that are not hexadecimal or cut short
EncodedCalls ==
  {[content |-> c, source_ip |-> "10.0.0.2", url |-> <<"/","q">>] :
     c \in { <<"%","2","5","3","C","s","c","r","i","p","t","%","2","5","3","E">>, <<"%","3","C","s","c","r","i","p","t","%","3","E">>, <<"%","F","F","e","v","a","l","(","1",")">>, <<"%","z","z","a","l","e","r","t","(","1",")">>,
             <<"a","l","e","r","t","(","1",")","%","4">>, <<"%">> }}

\* arguments of detect_xss around the two size limits: more than five
\* matches of one signature, decoded content of more than, exactly and less
\* than 200 characters, and content that is longer than 200 characters only
\* before it is decoded
Pad(n) == [i \in 1..n |-> "a"]
SizedCalls ==
  {[content |-> c, source_ip |-> "10.0.0.4", url |-> <<"/","l","o","n","g">>] :
     c \in { <<"a","l","e","r","t","(","1",")"," ","a","l","e","r","t"," ","(","2",")"," ","A","L","E","R","T","(","3",")"," ","a","l","e","r","t"," "," ","(","4",")"," ","A","l","e","r","t","(","5",")"," ","a","l","e","r","t","(","6",")"," ","a","l","e","r","t"," ","(","7",")">>,
             <<"a","l","e","r","t","(","1",")"," ","a","l","e","r","t"," ","(","2",")"," ","A","L","E","R","T","(","3",")"," ","a","l","e","r","t"," "," ","(","4",")"," ","A","l","e","r","t","(","5",")"," ","a","l","e","r","t","(","6",")"," ","a","l","e","r","t"," ","(","7",")">>
                \o Pad(140) \o <<"b","c","d">>,
             <<"<","s","c","r","i","p","t",">">> \o Pad(192) \o <<"b","c","d">>,
             <<"<","s","c","r","i","p","t",">">> \o Pad(192),
             <<"%","3","C","s","c","r","i","p","t","%","3","E">> \o Pad(190),
             <<"<","s","v","g"," ","o","n","l","o","a","d","=","1",">">>,
             Pad(210) }}

\* contents and the payloads appended to them in the runs on concatenations
ConcatHeads ==
  { <<>>, <<"1","2","3","4","5","6">>, <<"a","l","e","r","t","(","1",")">>, <<"u","n","e","s","c","a","p","e","(","x",")">>, <<"<","s","c","r","i","p","t",">">>,
    <<"%">>, <<"%","6">>, <<"a","l","e","r","t","(","1",")","%","6">>, <<"<","i","f","r","a","m","e"," ","s","r","c","=","a",">","%">> }

ConcatTails ==
  { <<"c","o","n","f","i","r","m","(","1",")">>, <<"<","s","c","r","i","p","t",">","a","l","e","r","t","(","'","X","S","S","'",")","<","/","s","c","r","i","p","t",">">>, <<"d","o","c","u","m","e","n","t",".","c","o","o","k","i","e">>, <<"o","n","l","o","a","d","=","1">> }

\* arguments of detect_xss on a content followed by a payload
ConcatCalls ==
  {[head |-> c, tail |-> p, content |-> c \o p, source_ip |-> "10.0.0.1", url |-> <<"/","s","e","a","r","c","h">>]
     : c \in ConcatHeads, p \in ConcatTails}

\* the PacketIn events: the parsed Ethernet frame with its IPv4 and TCP
\* fields, the switch and port it came from, and the text of its payload
PacketEvents ==
  { [parsed |-> FALSE, type |-> "IP", protocol |-> "TCP", srcport |-> 40000, dstport |-> 80,
     srcip |-> "10.0.0.5", dstip |-> "10.0.0.9", dpid |-> "00-00-00-00-00-01", port |-> 1,
     payload |-> <<"G","E","T"," ","/","s","e","a","r","c","h","?","q","=","<","s","c","r","i","p","t",">"," ","H","T","T","P","/","1",".","1">>],
    [parsed |-> TRUE, type |-> "ARP", protocol |-> "", srcport |-> 0, dstport |-> 0,
     srcip |-> "10.0.0.5", dstip |-> "10.0.0.9", dpid |-> "00-00-00-00-00-01", port |-> 1,
     payload |-> <<>>],
    [parsed |-> TRUE, type |-> "IP", protocol |-> "UDP", srcport |-> 40000, dstport |-> 80,
     srcip |-> "10.0.0.5", dstip |-> "10.0.0.9", dpid |-> "00-00-00-00-00-01", port |-> 1,
     payload |-> <<"G","E","T"," ","/","s","e","a","r","c","h","?","q","=","<","s","c","r","i","p","t",">"," ","H","T","T","P","/","1",".","1">>],
    [parsed |-> TRUE, type |-> "IP", protocol |-> "TCP", srcport |-> 40000, dstport |-> 22,
     srcip |-> "10.0.0.5", dstip |-> "10.0.0.9", dpid |-> "00-00-00-00-00-01", port |-> 1,
     payload |-> <<"G","E","T"," ","/","s","e","a","r","c","h","?","q","=","<","s","c","r","i","p","t",">"," ","H","T","T","P","/","1",".","1">>],
    [parsed |-> TRUE, type |-> "IP", protocol |-> "TCP", srcport |-> 40000, dstport |-> 80,
     srcip |-> "10.0.0.5", dstip |-> "10.0.0.9", dpid |-> "00-00-00-00-00-01", port |-> 1,
     payload |-> <<"G","E","T"," ","/","s","e","a","r","c","h","?","q","=","<","s","c","r","i","p","t",">"," ","H","T","T","P","/","1",".","1">>],
    [parsed |-> TRUE, type |-> "IP", protocol |-> "TCP", srcport |-> 40000, dstport |-> 80,
     srcip |-> "10.0.0.6", dstip |-> "10.0.0.9", dpid |-> "00-00-00-00-00-01", port |-> 1,
     payload |-> <<"G","E","T"," ","/","i","n","d","e","x",".","h","t","m","l"," ","H","T","T","P","/","1",".","1">>],
    [parsed |-> TRUE, type |-> "IP", protocol |-> "TCP", srcport |-> 40000, dstport |-> 443,
     srcip |-> "10.0.0.5", dstip |-> "10.0.0.9", dpid |-> "00-00-00-00-00-01", port |-> 1,
     payload |-> <<"G","E","T"," ","/","s","e","a","r","c","h","?","q","=","<","s","c","r","i","p","t",">"," ","H","T","T","P","/","1",".","1">>],
    [parsed |-> TRUE, type |-> "IP", protocol |-> "TCP", srcport |-> 40000, dstport |-> 8080,
     srcip |-> "10.0.0.7", dstip |-> "10.0.0.9", dpid |-> "00-00-00-00-00-01", port |-> 1,
     payload |-> <<"P","O","S","T"," ","/","c","?","x","=","a","l","e","r","t","(","1",")"," ","H","T","T","P","/","1",".","1","\\","n","U","s","e","r","-","A","g","e","n","t",":"," ","<","s","c","r","i","p","t",">","\\","n","X","-","C","u","s","t","o","m",":"," ","a","l","e","r","t","(","1",")","\\","n","\\","n","<","i","f","r","a","m","e"," ","s","r","c","=","a",">">>],
    [parsed |-> TRUE, type |-> "IP", protocol |-> "TCP", srcport |-> 80, dstport |-> 40000,
     srcip |-> "10.0.0.9", dstip |-> "10.0.0.5", dpid |-> "00-00-00-00-00-01", port |-> 1,
     payload |-> <<"H","T","T","P","/","1",".","1"," ","2","0","0"," ","O","K","\\","r","\\","n","\\","r","\\","n","<","s","c","r","i","p","t",">","a","l","e","r","t","(","1",")","<","/","s","c","r","i","p","t",">">>],
    [parsed |-> TRUE, type |-> "IP", protocol |-> "TCP", srcport |-> 40000, dstport |-> 8000,
     srcip |-> "10.0.0.5", dstip |-> "10.0.0.9", dpid |-> "00-00-00-00-00-01", port |-> 1,
     payload |-> <<"G","E","T"," ","/","<","s","v","g">>],
    [parsed |-> TRUE, type |-> "IP", protocol |-> "TCP", srcport |-> 40000, dstport |-> 5000,
     srcip |-> "10.0.0.5", dstip |-> "10.0.0.9", dpid |-> "00-00-00-00-00-01", port |-> 1,
     payload |-> <<"G","E","T"," ","/","<","s","c","r","i","p","t",">","x">>],
    [parsed |-> TRUE, type |-> "IP", protocol |-> "TCP", srcport |-> 3000, dstport |-> 40000,
     srcip |-> "10.0.0.9", dstip |-> "10.0.0.5", dpid |-> "00-00-00-00-00-01", port |-> 1,
     payload |-> <<"H","T","T","P","/","1",".","1"," ","3","0","4"," ","<","s","c","r","i","p","t",">">>],
    [parsed |-> TRUE, type |-> "IP", protocol |-> "TCP", srcport |-> 40000, dstport |-> 80,
     srcip |-> "10.0.0.5", dstip |-> "10.0.0.9", dpid |-> "00-00-00-00-00-01", port |-> 1,
     payload |-> <<>>] }

\* how the surroundings behave during one PacketIn: the logging handler and
\* the attack file take the write or fail, and an exception is raised
\* inside _analyze_http_packet before the analysis, after the detection, or
\* not at all
AllOk == [logger |-> "ok", file |-> "ok", fault |-> "none"]

PacketEnvs ==
  { AllOk,
    [logger |-> "fails", file |-> "ok", fault |-> "none"],
    [logger |-> "ok", file |-> "fails", fault |-> "none"],
    [logger |-> "ok", file |-> "ok", fault |-> "before"],
    [logger |-> "ok", file |-> "ok", fault |-> "after"] }

\* the packets and the environments they are handled in: every packet with
\* working sinks, the request of port 80 that carries a payload with each
\* failure, the request of port 8080 with a failing file and the response
\* with a failing logger
PacketInputs ==
  { <<p, env>> \in PacketEvents \X PacketEnvs :
      \/ env = AllOk
      \/ p.parsed /\ p.dstport = 80 /\ p.srcip = "10.0.0.5" /\ Len(p.payload) > 0
      \/ p.dstport = 8080 /\ env.file = "fails"
      \/ p.srcport = 80 /\ env.logger = "fails" }

\* the threads that call detect_xss, what each is called with, and the
\* contents they choose from
Tids == 1..MaxThreads
ThreadSources == <<"10.0.1.1", "10.0.1.2", "10.0.1.3", "10.0.1.4">>
ThreadContents == {<<"<","s","c","r","i","p","t",">","a","l","e","r","t","(","'","X","S","S","'",")","<","/","s","c","r","i","p","t",">">>, <<"n","o","r","m","a","l"," ","s","e","a","r","c","h"," ","q","u","e","r","y">>}

\* the switches that connect
Dpids == {"00-00-00-00-00-01"}

\* what the controller hands to detect_xss for these packets
PacketContents ==
  UNION {UNION {{p.url, p.body, response_body(e.payload).body}
                  \cup {p.headers[i].value : i \in 1..Len(p.headers)}
                  : p \in {parse_request(e.payload)}} : e \in PacketEvents}

\* the sets of at most n signature ids
RECURSIVE SignatureSets(_)
SignatureSets(n) ==
  IF n = 0 THEN {{}}
  ELSE LET smaller == SignatureSets(n - 1) IN
       smaller \cup {x \cup {pid} : x \in smaller, pid \in 0..(Len(xss_patterns) - 1)}

\* every content string some call hands to detect_xss
Contents ==
  {c.content : c \in DetectCalls \cup LongCalls \cup SuiteCalls \cup ConcatCalls \cup EncodedCalls}
    \cup ConcatHeads \cup ConcatTails
    \cup {r.url : r \in RequestCalls} \cup {r.body : r \in RequestCalls}
    \cup UNION {{r.headers[i].value : i \in 1..Len(r.headers)} : r \in RequestCalls}
    \cup PacketContents \cup ThreadContents \cup {c.content : c \in SizedCalls}

\* ------------------------------------------------------------------------
\* DetectionEngine: XSSDetector.detect_xss
\* ------------------------------------------------------------------------

Take(s, n) == SubSeq(s, 1, IF Len(s) < n THEN Len(s) ELSE n)

\* variant of scan_patterns: the loop stops at the first signature that
\* matches
RECURSIVE scan_patterns_first(_, _)
scan_patterns_first(decoded_content, i) ==
  IF i > Len(compiled_patterns) THEN <<>>
  ELSE LET matches == findall(compiled_patterns[i], decoded_content) IN
       IF matches # <<>>
       THEN <<[pattern_id |-> i - 1, pattern |-> xss_patterns[i],
               matches |-> Take(matches, MaxMatches)]>>
       ELSE scan_patterns_first(decoded_content, i + 1)

\* variant of scan_patterns: every match is kept
RECURSIVE scan_patterns_uncut(_, _)
scan_patterns_uncut(decoded_content, i) ==
  IF i > Len(compiled_patterns) THEN <<>>
  ELSE LET matches == findall(compiled_patterns[i], decoded_content) IN
       (IF matches # <<>>
        THEN <<[pattern_id |-> i - 1, pattern |-> xss_patterns[i],
                matches |-> matches]>>
        ELSE <<>>) \o scan_patterns_uncut(decoded_content, i + 1)

\* the loop over self.compiled_patterns: one entry per signature that
\* matches, in catalog order, with at most MaxMatches matched substrings
RECURSIVE scan_patterns(_, _)
scan_patterns(decoded_content, i) ==
  IF i > Len(compiled_patterns) THEN <<>>
  ELSE LET matches == findall(compiled_patterns[i], decoded_content) IN
       (IF matches # <<>>
        THEN <<[pattern_id |-> i - 1, pattern |-> xss_patterns[i],
                matches |-> Take(matches, MaxMatches)]>>
        ELSE <<>>) \o scan_patterns(decoded_content, i + 1)

\* decoding and scanning of each input content, evaluated once
Scanned ==
  [c \in Contents |->
     LET decoded_content == unquote_plus(c) IN
     [decoded_content |-> decoded_content,
      detected_patterns |-> scan_patterns(decoded_content, 1)]]

\* variant of is_detected: an empty list of matches counts as a detection
is_detected_always(detected_patterns) == Len(detected_patterns) >= 0

\* variant of is_detected: a single matching signature is not enough
is_detected_two(detected_patterns) == Len(detected_patterns) > 1

\* is_detected = len(detected_patterns) > 0
is_detected(detected_patterns) == Len(detected_patterns) > 0

high_risk_patterns   == {0, 1, 2, 3, 4, 5, 6, 10, 11, 12}
medium_risk_patterns == {7, 8, 9, 13, 14, 15, 16}

\* variant of _calculate_risk_level: the last matched signature alone
\* decides
_calculate_risk_level_last(patterns) ==
  IF patterns = <<>> THEN "low"
  ELSE IF patterns[Len(patterns)].pattern_id \in high_risk_patterns THEN "high"
  ELSE IF patterns[Len(patterns)].pattern_id \in medium_risk_patterns THEN "medium"
  ELSE "low"

\* variant of _calculate_risk_level: the medium test comes first
_calculate_risk_level_medium_first(patterns) ==
  LET pattern_ids == {patterns[i].pattern_id : i \in 1..Len(patterns)} IN
  IF \E pid \in pattern_ids : pid \in medium_risk_patterns THEN "medium"
  ELSE IF \E pid \in pattern_ids : pid \in high_risk_patterns THEN "high"
  ELSE "low"

\* XSSDetector._calculate_risk_level
_calculate_risk_level(patterns) ==
  LET pattern_ids == {patterns[i].pattern_id : i \in 1..Len(patterns)} IN
  IF \E pid \in pattern_ids : pid \in high_risk_patterns THEN "high"
  ELSE IF \E pid \in pattern_ids : pid \in medium_risk_patterns THEN "medium"
  ELSE "low"

\* the detected_patterns entries of the signatures ids, in catalog order
RECURSIVE signature_entries(_, _)
signature_entries(ids, pid) ==
  IF pid >= Len(xss_patterns) THEN <<>>
  ELSE (IF pid \in ids
        THEN <<[pattern_id |-> pid, pattern |-> xss_patterns[pid + 1], matches |-> <<>>]>>
        ELSE <<>>) \o signature_entries(ids, pid + 1)

\* XSSDetector._log_attack: the line handed to logger.warning
_log_attack(attack_info) ==
  [level |-> "WARNING", source |-> attack_info.source_ip, url |-> attack_info.url,
   risk |-> attack_info.risk_level, patterns |-> Len(attack_info.detected_patterns)]

NotDetected == [detected |-> FALSE, patterns |-> <<>>, risk_level |-> "low"]

\* variant of record_detection: the history keeps only its RecentLen most
\* recent records
record_detection_evicting(self, attack_info) ==
  [detection_count |-> self.detection_count + 1,
   attack_log |-> LET log == Append(self.attack_log, attack_info) IN
                  IF Len(log) <= RecentLen THEN log
                  ELSE SubSeq(log, Len(log) - RecentLen + 1, Len(log)),
   log_lines |-> Append(self.log_lines, _log_attack(attack_info)),
   clock |-> self.clock + 1]

\* variant of record_detection: _log_attack is not called
record_detection_unlogged(self, attack_info) ==
  [detection_count |-> self.detection_count + 1,
   attack_log |-> Append(self.attack_log, attack_info),
   log_lines |-> self.log_lines,
   clock |-> self.clock + 1]

\* the state changes of a detection: self.detection_count += 1,
\* datetime.now() read once, self.attack_log.append(attack_info),
\* self._log_attack(attack_info)
record_detection(self, attack_info) ==
  [detection_count |-> self.detection_count + 1,
   attack_log |-> Append(self.attack_log, attack_info),
   log_lines |-> Append(self.log_lines, _log_attack(attack_info)),
   clock |-> self.clock + 1]

\* variant of detect_xss: content shorter than MinLength is not scanned
detect_xss_threshold(self, content, source_ip, url) ==
  IF Len(content) < MinLength THEN [self |-> self, result |-> NotDetected]
  ELSE
    LET decoded_content   == Scanned[content].decoded_content
        detected_patterns == Scanned[content].detected_patterns
        risk_level        == _calculate_risk_level(detected_patterns)
        attack_info ==
          [timestamp |-> self.clock + 1, source_ip |-> source_ip, url |-> url,
           detected_patterns |-> detected_patterns, risk_level |-> risk_level,
           content_sample |-> Take(decoded_content, SampleLen)]
    IN IF is_detected(detected_patterns)
       THEN [self |-> record_detection(self, attack_info),
             result |-> [detected |-> TRUE, patterns |-> detected_patterns,
                         risk_level |-> risk_level, attack_info |-> attack_info]]
       ELSE [self |-> self, result |-> NotDetected]

\* variant of detect_xss: the counter is incremented before is_detected is
\* tested
detect_xss_counting(self, content, source_ip, url) ==
  IF content = <<>> THEN [self |-> self, result |-> NotDetected]
  ELSE
    LET decoded_content   == Scanned[content].decoded_content
        detected_patterns == Scanned[content].detected_patterns
        risk_level        == _calculate_risk_level(detected_patterns)
        attack_info ==
          [timestamp |-> self.clock + 1, source_ip |-> source_ip, url |-> url,
           detected_patterns |-> detected_patterns, risk_level |-> risk_level,
           content_sample |-> Take(decoded_content, SampleLen)]
    IN IF is_detected(detected_patterns)
       THEN [self |-> record_detection(self, attack_info),
             result |-> [detected |-> TRUE, patterns |-> detected_patterns,
                         risk_level |-> risk_level, attack_info |-> attack_info]]
       ELSE [self |-> [self EXCEPT !.detection_count = @ + 1],
             result |-> NotDetected]

\* variant of detect_xss: every detection after the first is rated high
detect_xss_escalating(self, content, source_ip, url) ==
  IF content = <<>> THEN [self |-> self, result |-> NotDetected]
  ELSE
    LET decoded_content   == Scanned[content].decoded_content
        detected_patterns == Scanned[content].detected_patterns
        risk_level        == IF self.detection_count > 0 THEN "high"
                             ELSE _calculate_risk_level(detected_patterns)
        attack_info ==
          [timestamp |-> self.clock + 1, source_ip |-> source_ip, url |-> url,
           detected_patterns |-> detected_patterns, risk_level |-> risk_level,
           content_sample |-> Take(decoded_content, SampleLen)]
    IN IF is_detected(detected_patterns)
       THEN [self |-> record_detection(self, attack_info),
             result |-> [detected |-> TRUE, patterns |-> detected_patterns,
                         risk_level |-> risk_level, attack_info |-> attack_info]]
       ELSE [self |-> self, result |-> NotDetected]

\* XSSDetector.detect_xss on detector state self: the state it leaves and
\* the dictionary it returns
detect_xss(self, content, source_ip, url) ==
  IF content = <<>> THEN [self |-> self, result |-> NotDetected]
  ELSE
    LET decoded_content   == Scanned[content].decoded_content
        detected_patterns == Scanned[content].detected_patterns
        risk_level        == _calculate_risk_level(detected_patterns)
        attack_info ==
          [timestamp |-> self.clock + 1, source_ip |-> source_ip, url |-> url,
           detected_patterns |-> detected_patterns, risk_level |-> risk_level,
           content_sample |-> Take(decoded_content, SampleLen)]
    IN IF is_detected(detected_patterns)
       THEN [self |-> record_detection(self, attack_info),
             result |-> [detected |-> TRUE, patterns |-> detected_patterns,
                         risk_level |-> risk_level, attack_info |-> attack_info]]
       ELSE [self |-> self, result |-> NotDetected]

\* ------------------------------------------------------------------------
\* RequestAnalyzer: XSSDetector.analyze_http_request
\* ------------------------------------------------------------------------

lower(str) == [i \in 1..Len(str) |-> fold(str[i])]

InspectedHeaders == { <<"u","s","e","r","-","a","g","e","n","t">>, <<"r","e","f","e","r","e","r">>, <<"x","-","f","o","r","w","a","r","d","e","d","-","f","o","r">> }

\* variant of header_locations: every header is inspected
RECURSIVE header_locations_all(_, _)
header_locations_all(headers, i) ==
  IF i > Len(headers) THEN <<>>
  ELSE <<[content |-> headers[i].value,
          location |-> <<"H","e","a","d","e","r","-">> \o headers[i].name]>>
         \o header_locations_all(headers, i + 1)

\* the loop over headers.items(): the headers whose value is inspected, as
\* the (content, location) pairs handed to detect_xss, in dict order
RECURSIVE header_locations(_, _)
header_locations(headers, i) ==
  IF i > Len(headers) THEN <<>>
  ELSE (IF lower(headers[i].name) \in InspectedHeaders
        THEN <<[content |-> headers[i].value,
                location |-> <<"H","e","a","d","e","r","-">> \o headers[i].name]>>
        ELSE <<>>) \o header_locations(headers, i + 1)

\* variant of inspected_locations: the body is not inspected
inspected_locations_no_body(url, headers, body) ==
  <<[content |-> url, location |-> <<"U","R","L">>]>> \o header_locations(headers, 1)

\* the places of a request detect_xss is called on, in the order of the
\* calls: the URL, the inspected headers, the body if it is not empty
inspected_locations(url, headers, body) ==
  <<[content |-> url, location |-> <<"U","R","L">>]>>
    \o header_locations(headers, 1)
    \o (IF body # <<>> THEN <<[content |-> body, location |-> <<"B","o","d","y">>]>> ELSE <<>>)

\* variant of check_location: the location's own content is passed as url
check_location_content_url(acc, loc, source_ip, url) ==
  LET d == detect_xss(acc.self, loc.content, source_ip, loc.content) IN
  [self    |-> d.self,
   results |-> IF d.result.detected
               THEN Append(acc.results, [location |-> loc.location] @@ d.result)
               ELSE acc.results,
   invoked |-> Append(acc.invoked, d.result)]

\* one call of detect_xss made on behalf of a request, on the accumulator
\* acc = [self, results, invoked]: the result is appended to results, tagged
\* with its location, when it detected
check_location(acc, loc, source_ip, url) ==
  LET d == detect_xss(acc.self, loc.content, source_ip, url) IN
  [self    |-> d.self,
   results |-> IF d.result.detected
               THEN Append(acc.results, [location |-> loc.location] @@ d.result)
               ELSE acc.results,
   invoked |-> Append(acc.invoked, d.result)]

\* the calls of detect_xss on locations i.. of locs, one after the other
RECURSIVE check_locations(_, _, _, _, _)
check_locations(acc, locs, i, source_ip, url) ==
  IF i > Len(locs) THEN acc
  ELSE CHOOSE done \in {check_locations(next, locs, i + 1, source_ip, url) :
                          next \in {check_location(acc, locs[i], source_ip, url)}} : TRUE

\* variant of analyze_http_request: total_detections is the number of
\* signatures matched over all the results
analyze_http_request_signatures(self, method, url, headers, body, source_ip) ==
  LET RECURSIVE signatures(_)
      signatures(results) ==
        IF results = <<>> THEN 0
        ELSE Len(Head(results).patterns) + signatures(Tail(results))
      finish(acc) ==
        [self    |-> acc.self,
         invoked |-> acc.invoked,
         result  |-> [detected |-> Len(acc.results) > 0, results |-> acc.results,
                      total_detections |-> signatures(acc.results)]]
  IN CHOOSE out \in
       {finish(acc) :
          acc \in {check_locations(start, inspected_locations(url, headers, body),
                                   1, source_ip, url) :
                     start \in {[self |-> self, results |-> <<>>, invoked |-> <<>>]}}} : TRUE

\* XSSDetector.analyze_http_request on detector state self: the state it
\* leaves, the results of its detect_xss calls and the dictionary it returns
analyze_http_request(self, method, url, headers, body, source_ip) ==
  LET finish(acc) ==
        [self    |-> acc.self,
         invoked |-> acc.invoked,
         result  |-> [detected |-> Len(acc.results) > 0, results |-> acc.results,
                      total_detections |-> Len(acc.results)]]
  IN CHOOSE out \in
       {finish(acc) :
          acc \in {check_locations(start, inspected_locations(url, headers, body),
                                   1, source_ip, url) :
                     start \in {[self |-> self, results |-> <<>>, invoked |-> <<>>]}}} : TRUE

\* ------------------------------------------------------------------------
\* Statistics: XSSDetector.get_statistics
\* ------------------------------------------------------------------------

\* the loop risk_levels[attack["risk_level"]] += 1 over self.attack_log
RECURSIVE count_risk_levels(_, _, _)
count_risk_levels(log, i, risk_levels) ==
  IF i > Len(log) THEN risk_levels
  ELSE count_risk_levels(log, i + 1,
         [risk_levels EXCEPT ![log[i].risk_level] = @ + 1])

\* variant of Last: seq[:n]
Last_oldest(seq, n) == SubSeq(seq, 1, IF Len(seq) < n THEN Len(seq) ELSE n)

\* seq[-n:]
Last(seq, n) == IF Len(seq) <= n THEN seq ELSE SubSeq(seq, Len(seq) - n + 1, Len(seq))

\* variant of get_statistics: the tiers are counted over the recent attacks
get_statistics_recent(self) ==
  [total_detections |-> self.detection_count,
   risk_levels      |-> count_risk_levels(Last(self.attack_log, RecentLen), 1,
                                          [high |-> 0, medium |-> 0, low |-> 0]),
   recent_attacks   |-> Last(self.attack_log, RecentLen),
   patterns_loaded  |-> Len(xss_patterns)]

get_statistics(self) ==
  [total_detections |-> self.detection_count,
   risk_levels      |-> count_risk_levels(self.attack_log, 1,
                                          [high |-> 0, medium |-> 0, low |-> 0]),
   recent_attacks   |-> Last(self.attack_log, RecentLen),
   patterns_loaded  |-> Len(xss_patterns)]

\* ------------------------------------------------------------------------
\* Persistence: XSSDetector.save_log_to_file
\* ------------------------------------------------------------------------

\* the keys of an attack record, in insertion order
attack_info_keys ==
  <<"timestamp", "source_ip", "url", "detected_patterns", "risk_level", "content_sample">>

\* the lines json.dump(..., indent=2) writes for one record of the list: the
\* opening brace, a line per key, the closing brace with a comma unless the
\* record is the last.  The lines of the nested detected_patterns value are
\* folded into the line of its key.  A line is its text and the record it
\* belongs to (none for the brackets of the list).
json_dump_record(attack_info, last) ==
  <<[text |-> "{", record |-> <<attack_info>>]>>
    \o [k \in 1..Len(attack_info_keys) |->
          [text |-> attack_info_keys[k], record |-> <<attack_info>>]]
    \o <<[text |-> IF last THEN "}" ELSE "},", record |-> <<attack_info>>]>>

RECURSIVE json_dump_records(_, _)
json_dump_records(log, i) ==
  IF i > Len(log) THEN <<>>
  ELSE json_dump_record(log[i], i = Len(log)) \o json_dump_records(log, i + 1)

\* json.dump(self.attack_log, f, indent=2): one JSON array over several lines
json_dump(log) ==
  IF log = <<>> THEN <<[text |-> "[]", record |-> <<>>]>>
  ELSE <<[text |-> "[", record |-> <<>>]>>
         \o json_dump_records(log, 1)
         \o <<[text |-> "]", record |-> <<>>]>>

\* the file names save_log_to_file is called with: the default
Filenames == {"xss_attacks.json"}

\* what the storage does with a save: it takes it, open() fails, or a write
\* fails after open() truncated the file and `written` lines went through
SinkOutcomes(self) ==
  {[sink |-> "ok", written |-> Len(json_dump(self.attack_log))],
   [sink |-> "open fails", written |-> 0]}
    \cup {[sink |-> "write fails", written |-> n] :
            n \in 0..(Len(json_dump(self.attack_log)) - 1)}

\* variant of save_log_to_file: the file is opened with 'a'
save_log_to_file_appending(self, fs, filename, outcome) ==
  [files  |-> IF outcome.sink = "open fails" THEN fs
              ELSE [fs EXCEPT ![filename] =
                      @ \o Take(json_dump(self.attack_log), outcome.written)],
   logged |-> IF outcome.sink = "ok"
              THEN [level |-> "INFO", message |-> "Attack log saved to", filename |-> filename]
              ELSE [level |-> "ERROR", message |-> "Failed to save log:", filename |-> filename],
   result |-> "None"]

\* XSSDetector.save_log_to_file(filename) on the files fs, the storage
\* behaving as outcome: the files it leaves, the line it logs and what it
\* returns.  open(filename, 'w') replaces what the file held; an exception
\* is logged and swallowed, and the method returns None either way.
save_log_to_file(self, fs, filename, outcome) ==
  [files  |-> IF outcome.sink = "open fails" THEN fs
              ELSE [fs EXCEPT ![filename] =
                      Take(json_dump(self.attack_log), outcome.written)],
   logged |-> IF outcome.sink = "ok"
              THEN [level |-> "INFO", message |-> "Attack log saved to", filename |-> filename]
              ELSE [level |-> "ERROR", message |-> "Failed to save log:", filename |-> filename],
   result |-> "None"]

\* ------------------------------------------------------------------------
\* Controller: XSSDetectorController
\* ------------------------------------------------------------------------

\* the ports _handle_PacketIn hands to the analysis
AnalysedPorts == {80, 8080, 8000, 3000, 5000}

\* the ports _install_http_flow installs a rule for, in the order sent
FlowPorts == <<80, 443, 8080, 8000, 3000, 5000>>

\* the ofp_flow_mod messages _install_http_flow sends: IPv4, TCP, the
\* destination port, output to the controller and NORMAL
_install_http_flow ==
  [i \in 1..Len(FlowPorts) |->
     [dl_type |-> "IPv4", nw_proto |-> "TCP", tp_dst |-> FlowPorts[i], nw_src |-> "",
      actions |-> <<"OFPP_CONTROLLER", "OFPP_NORMAL">>]]

\* the ofp_flow_mod message _block_malicious_traffic sends: no actions, the
\* packets of source_ip are dropped
_block_malicious_traffic(source_ip) ==
  <<[dl_type |-> "IPv4", nw_proto |-> "", tp_dst |-> 0, nw_src |-> source_ip,
     actions |-> <<>>]>>

\* a logging handler that fails loses the line and nothing else
\* (logging.Handler.handleError): the detector after a call that started
\* from `before`
logged_through(handler, before, after) ==
  IF handler = "fails" THEN [after EXCEPT !.log_lines = before.log_lines] ELSE after

\* variant of detect_xss_handled: a failing handler suppresses the verdict
detect_xss_handled_suppressing(self, content, source_ip, url, handler) ==
  LET d == detect_xss(self, content, source_ip, url) IN
  IF handler = "fails" /\ d.result.detected
  THEN [self |-> logged_through(handler, self, d.self), result |-> NotDetected]
  ELSE d

\* detect_xss with the logging handler behaving as `handler`
detect_xss_handled(self, content, source_ip, url, handler) ==
  LET d == detect_xss(self, content, source_ip, url) IN
  [self |-> logged_through(handler, self, d.self), result |-> d.result]

\* variant of _log_attack_to_file: the file is opened with 'w'
_log_attack_to_file_overwriting(pox_file, attack_data, sink) ==
  IF sink = "fails" THEN pox_file ELSE <<attack_data>>

\* XSSDetectorController._log_attack_to_file on the file of the hour: the
\* record is appended; a failure is logged and swallowed
_log_attack_to_file(pox_file, attack_data, sink) ==
  IF sink = "fails" THEN pox_file ELSE Append(pox_file, attack_data)

\* variant of _handle_xss_detection: the source is blocked
_handle_xss_detection_blocking(ctl, source_ip, url, result, event, env, now) ==
  IF env.fault = "after" THEN ctl
  ELSE [ctl EXCEPT
          !.pox_file = _log_attack_to_file(@,
             [timestamp |-> now, source_ip |-> source_ip, url |-> url,
              result |-> result, switch_id |-> event.dpid, port |-> event.port],
             env.file),
          !.sent = @ \o _block_malicious_traffic(source_ip)]

\* XSSDetectorController._handle_xss_detection: the attack is written to the
\* file; the call of _block_malicious_traffic is commented out.  With the
\* fault "after" an exception is raised while attack_data is built.
_handle_xss_detection(ctl, source_ip, url, result, event, env, now) ==
  IF env.fault = "after" THEN ctl
  ELSE [ctl EXCEPT
          !.pox_file = _log_attack_to_file(@,
             [timestamp |-> now, source_ip |-> source_ip, url |-> url,
              result |-> result, switch_id |-> event.dpid, port |-> event.port],
             env.file)]

\* variant of detected_by: xss_detected counts the locations that triggered
detected_by_locations(h, source_ip, url, result, event, env) ==
  IF ~result.detected THEN h
  ELSE [h EXCEPT !.ctl = _handle_xss_detection(
                           [@ EXCEPT !.xss_detected =
                              @ + (IF "total_detections" \in DOMAIN result
                                   THEN result.total_detections ELSE 1)],
                           source_ip, url, result, event, env, h.self.clock)]

\* if result["detected"]: self.xss_detected += 1 and _handle_xss_detection,
\* on h = [self, ctl, results]
detected_by(h, source_ip, url, result, event, env) ==
  IF ~result.detected THEN h
  ELSE [h EXCEPT !.ctl = _handle_xss_detection(
                           [@ EXCEPT !.xss_detected = @ + 1],
                           source_ip, url, result, event, env, h.self.clock)]

\* XSSDetectorController._analyze_http_request
_analyze_http_request(h, packet, env) ==
  CHOOSE out \in
    {IF ~p.ok THEN h
     ELSE CHOOSE after \in
            {detected_by([h EXCEPT !.self = logged_through(env.logger, h.self, a.self),
                                   !.results = a.invoked],
                         packet.srcip, p.url, a.result, packet, env) :
               a \in {analyze_http_request(h.self, p.method, p.url, p.headers, p.body,
                                           packet.srcip)}} : TRUE
       : p \in {parse_request(packet.payload)}} : TRUE

\* XSSDetectorController._analyze_http_response
_analyze_http_response(h, packet, env) ==
  LET b == response_body(packet.payload) IN
  IF ~b.found THEN h
  ELSE CHOOSE out \in
         {detected_by([h EXCEPT !.self = d.self, !.results = <<d.result>>],
                      packet.dstip, <<"H","T","T","P"," ","R","e","s","p","o","n","s","e">>, d.result, packet, env) :
            d \in {detect_xss_handled(h.self, b.body, packet.dstip, <<"r","e","s","p","o","n","s","e">>,
                                      env.logger)}} : TRUE

\* XSSDetectorController._analyze_http_packet; an exception raised inside
\* it is caught and logged.  With the fault "before" one is raised when the
\* payload is converted.
_analyze_http_packet(h, packet, env) ==
  IF env.fault = "before" THEN h
  ELSE LET kind == packet_kind(packet.payload) IN
       IF kind = "request" THEN _analyze_http_request(h, packet, env)
       ELSE IF kind = "response" THEN _analyze_http_response(h, packet, env)
       ELSE h

\* variant of _handle_PacketIn: port 443 is analysed too
_handle_PacketIn_https(self, ctl, packet, env) ==
  LET h == [self |-> self, ctl |-> ctl, results |-> <<>>, analysed |-> FALSE] IN
  IF ~packet.parsed \/ packet.type # "IP" \/ packet.protocol # "TCP" THEN h
  ELSE CHOOSE out \in
         {[done EXCEPT !.ctl.packets_analyzed = @ + 1] :
            done \in {IF packet.dstport \in AnalysedPorts \cup {443}
                         \/ packet.srcport \in AnalysedPorts \cup {443}
                      THEN _analyze_http_packet([h EXCEPT !.analysed = TRUE], packet, env)
                      ELSE h}} : TRUE

\* XSSDetectorController._handle_PacketIn on detector self and controller
\* ctl = [packets_analyzed, xss_detected, pox_file, sent]: what it leaves,
\* the results of the detect_xss calls made, and whether the packet was
\* handed to _analyze_http_packet
_handle_PacketIn(self, ctl, packet, env) ==
  LET h == [self |-> self, ctl |-> ctl, results |-> <<>>, analysed |-> FALSE] IN
  IF ~packet.parsed \/ packet.type # "IP" \/ packet.protocol # "TCP" THEN h
  ELSE CHOOSE out \in
         {[done EXCEPT !.ctl.packets_analyzed = @ + 1] :
            done \in {IF packet.dstport \in AnalysedPorts \/ packet.srcport \in AnalysedPorts
                      THEN _analyze_http_packet([h EXCEPT !.analysed = TRUE], packet, env)
                      ELSE h}} : TRUE

\* XSSDetectorController.get_statistics; the rate as the quotient it is
\* computed from, xss_detected / max(1, packets_analyzed), times 100
controller_statistics(self, ctl, connections) ==
  [packets_analyzed |-> ctl.packets_analyzed,
   xss_detected |-> ctl.xss_detected,
   connected_switches |-> Cardinality(connections),
   detector_stats |-> get_statistics(self),
   detection_rate |-> [numerator |-> ctl.xss_detected * 100,
                       denominator |-> IF ctl.packets_analyzed < 1 THEN 1
                                       ELSE ctl.packets_analyzed]]

\* ------------------------------------------------------------------------
\* State
\* ------------------------------------------------------------------------

VARIABLES
  detection_count,   \* self.detection_count
  attack_log,        \* self.attack_log
  log_lines,         \* the lines _log_attack has emitted through the logger
  clock,             \* number of readings of datetime.now() so far
  call,              \* the operation last invoked, with its arguments
  ret,               \* what that operation returned
  returned,          \* risk_level of every detect_xss invocation so far that
                     \* returned detected = True, in order of return
  files,             \* the lines each file save_log_to_file writes to holds
  save_lines,        \* the lines save_log_to_file has emitted through the logger
  packets_analyzed,  \* XSSDetectorController.packets_analyzed
  xss_detected,      \* XSSDetectorController.xss_detected
  connections,       \* the keys of XSSDetectorController.connections
  sent,              \* the messages sent to the switches with connection.send
  pox_file,          \* the records in the controller's attack file of the hour
  threads,           \* where each thread that calls detect_xss stands, with its locals
  reader             \* where the thread that calls get_statistics stands, with its locals

vars == <<detection_count, attack_log, log_lines, clock, call, ret, returned,
          files, save_lines, packets_analyzed, xss_detected, connections, sent,
          pox_file, threads, reader>>

\* the threads' own state
thrvars == <<threads, reader>>

\* the controller's own state
ctlvars == <<packets_analyzed, xss_detected, connections, sent, pox_file>>

\* the part of it the packet handler works on, as one value
Ctl ==
  [packets_analyzed |-> packets_analyzed, xss_detected |-> xss_detected,
   sent |-> sent, pox_file |-> pox_file]

\* the XSSDetector instance as one value
Self ==
  [detection_count |-> detection_count, attack_log |-> attack_log,
   log_lines |-> log_lines, clock |-> clock]

\* XSSDetector.__init__
Init ==
  /\ detection_count = 0
  /\ attack_log = <<>>
  /\ log_lines = <<>>
  /\ clock = 0
  /\ call = [op |-> "__init__"]
  /\ ret = [patterns_loaded |-> Len(xss_patterns)]
  /\ returned = <<>>
  /\ files = [f \in Filenames |-> <<>>]
  /\ save_lines = <<>>
  /\ packets_analyzed = 0
  /\ xss_detected = 0
  /\ connections = {}
  /\ sent = <<>>
  /\ pox_file = <<>>
  /\ threads = [t \in Tids |-> [pc |-> "idle"]]
  /\ reader = [pc |-> "idle"]

\* the detector state after an operation
SetSelf(self) ==
  /\ detection_count' = self.detection_count
  /\ attack_log' = self.attack_log
  /\ log_lines' = self.log_lines
  /\ clock' = self.clock

\* risk levels of the results that detected, in order
RECURSIVE DetectedRisks(_)
DetectedRisks(invoked) ==
  IF invoked = <<>> THEN <<>>
  ELSE (IF Head(invoked).detected THEN <<Head(invoked).risk_level>> ELSE <<>>)
         \o DetectedRisks(Tail(invoked))

\* a caller invokes detect_xss(c.content, c.source_ip, c.url)
Detect(c) ==
  \E d \in {detect_xss(Self, c.content, c.source_ip, c.url)} :
  /\ SetSelf(d.self)
  /\ call' = [op |-> "detect_xss"] @@ c
  /\ ret' = d.result
  /\ returned' = returned \o DetectedRisks(<<d.result>>)
  /\ UNCHANGED <<files, save_lines>>
  /\ UNCHANGED ctlvars
  /\ UNCHANGED thrvars

\* a caller invokes analyze_http_request(r.method, r.url, r.headers, r.body, r.source_ip)
AnalyzeRequest(r) ==
  \E a \in {analyze_http_request(Self, r.method, r.url, r.headers, r.body, r.source_ip)} :
  /\ SetSelf(a.self)
  /\ call' = [op |-> "analyze_http_request"] @@ r
  /\ ret' = a.result
  /\ returned' = returned \o DetectedRisks(a.invoked)
  /\ UNCHANGED <<files, save_lines>>
  /\ UNCHANGED ctlvars
  /\ UNCHANGED thrvars

\* a caller invokes get_statistics()
GetStatistics ==
  /\ call' = [op |-> "get_statistics"]
  /\ ret' = get_statistics(Self)
  /\ UNCHANGED <<detection_count, attack_log, log_lines, clock, returned, files, save_lines>>
  /\ UNCHANGED ctlvars
  /\ UNCHANGED thrvars

\* _calculate_risk_level(patterns) invoked on the entries of the signatures ids
CalculateRisk(ids) ==
  LET patterns == signature_entries(ids, 0) IN
  /\ call' = [op |-> "_calculate_risk_level", patterns |-> patterns]
  /\ ret' = _calculate_risk_level(patterns)
  /\ UNCHANGED <<detection_count, attack_log, log_lines, clock, returned, files, save_lines>>
  /\ UNCHANGED ctlvars
  /\ UNCHANGED thrvars

\* a caller invokes save_log_to_file(filename) and the storage behaves as
\* outcome
SaveLog(filename, outcome) ==
  \E s \in {save_log_to_file(Self, files, filename, outcome)} :
  /\ files' = s.files
  /\ save_lines' = Append(save_lines, s.logged)
  /\ call' = [op |-> "save_log_to_file", filename |-> filename] @@ outcome
  /\ ret' = [value |-> s.result]
  /\ UNCHANGED <<detection_count, attack_log, log_lines, clock, returned>>
  /\ UNCHANGED ctlvars
  /\ UNCHANGED thrvars

\* XSSDetector() is constructed again, as at the start of another run: a
\* detector with nothing detected, over the files and the time as they are
Construct ==
  /\ detection_count' = 0
  /\ attack_log' = <<>>
  /\ call' = [op |-> "__init__"]
  /\ ret' = [patterns_loaded |-> Len(xss_patterns)]
  /\ returned' = <<>>
  /\ UNCHANGED <<log_lines, clock, files, save_lines>>
  /\ UNCHANGED ctlvars
  /\ UNCHANGED thrvars

\* detect_xss(c.content, c.source_ip, c.url) with the logging handler
\* behaving as handler
DetectHandled(c, handler) ==
  \E d \in {detect_xss_handled(Self, c.content, c.source_ip, c.url, handler)} :
  /\ SetSelf(d.self)
  /\ call' = [op |-> "detect_xss", handler |-> handler] @@ c
  /\ ret' = d.result
  /\ returned' = returned \o DetectedRisks(<<d.result>>)
  /\ UNCHANGED <<files, save_lines>>
  /\ UNCHANGED ctlvars
  /\ UNCHANGED thrvars

\* a switch connects: _handle_ConnectionUp
ConnectionUp(dpid) ==
  /\ connections' = connections \cup {dpid}
  /\ sent' = sent \o _install_http_flow
  /\ call' = [op |-> "_handle_ConnectionUp", dpid |-> dpid]
  /\ ret' = [value |-> "None"]
  /\ UNCHANGED <<detection_count, attack_log, log_lines, clock, returned, files, save_lines,
                 packets_analyzed, xss_detected, pox_file>>
  /\ UNCHANGED thrvars

\* a switch disconnects: _handle_ConnectionDown
ConnectionDown(dpid) ==
  /\ connections' = connections \ {dpid}
  /\ call' = [op |-> "_handle_ConnectionDown", dpid |-> dpid]
  /\ ret' = [value |-> "None"]
  /\ UNCHANGED <<detection_count, attack_log, log_lines, clock, returned, files, save_lines,
                 packets_analyzed, xss_detected, sent, pox_file>>
  /\ UNCHANGED thrvars

\* a packet arrives at the controller: _handle_PacketIn
PacketIn(packet, env) ==
  \E h \in {_handle_PacketIn(Self, Ctl, packet, env)} :
  /\ SetSelf(h.self)
  /\ packets_analyzed' = h.ctl.packets_analyzed
  /\ xss_detected' = h.ctl.xss_detected
  /\ sent' = h.ctl.sent
  /\ pox_file' = h.ctl.pox_file
  /\ call' = [op |-> "_handle_PacketIn", packet |-> packet, env |-> env,
              analysed |-> h.analysed]
  /\ ret' = [value |-> "None"]
  /\ returned' = returned \o DetectedRisks(h.results)
  /\ UNCHANGED <<files, save_lines, connections>>
  /\ UNCHANGED thrvars

\* XSSDetectorController.get_statistics
ControllerStatistics ==
  /\ call' = [op |-> "controller.get_statistics"]
  /\ ret' = controller_statistics(Self, Ctl, connections)
  /\ UNCHANGED <<detection_count, attack_log, log_lines, clock, returned, files, save_lines>>
  /\ UNCHANGED ctlvars
  /\ UNCHANGED thrvars

DetectHandledAny == \E c \in LongCalls : \E handler \in {"ok", "fails"} : DetectHandled(c, handler)
PacketAny == \E i \in PacketInputs : PacketIn(i[1], i[2])
SaveAny == \E f \in Filenames : \E outcome \in SinkOutcomes(Self) : SaveLog(f, outcome)
DetectAny == \E c \in DetectCalls : Detect(c)
AnalyzeAny == \E r \in RequestCalls : AnalyzeRequest(r)
DetectLong == \E c \in LongCalls : Detect(c)
DetectSuite == \E c \in DetectCalls \cup SuiteCalls \cup EncodedCalls : Detect(c)
DetectConcatenated == \E c \in ConcatCalls : Detect(c)
DetectSized == \E c \in SizedCalls : Detect(c)
CalculateAny == \E ids \in SignatureSets(MaxMatched) \ {{}} : CalculateRisk(ids)

Next ==
  \/ detection_count < MaxLog /\ DetectAny
  \/ detection_count < MaxLog /\ AnalyzeAny
  \/ GetStatistics

Spec == Init /\ [][Next]_vars

\* long runs of detect_xss on few inputs
NextLong ==
  \/ detection_count < MaxLongLog /\ DetectLong
  \/ detection_count < MaxLongLog /\ AnalyzeRequest(LongRequest)
  \/ GetStatistics

SpecLong == Init /\ [][NextLong]_vars

\* the payload lists of the test suite, one detection deep
NextSuite == detection_count < MaxSuiteLog /\ DetectSuite

SpecSuite == Init /\ [][NextSuite]_vars

\* detect_xss on a content followed by a payload
NextConcat == detection_count < MaxConcatLog /\ DetectConcatenated

SpecConcat == Init /\ [][NextConcat]_vars

\* detect_xss on contents around the size limits
NextSized ==
  \/ detection_count < MaxSized /\ DetectSized
  \/ GetStatistics

SpecSized == Init /\ [][NextSized]_vars

\* detections and saves, over more than one run of the detector
NextSave ==
  \/ Len(log_lines) < MaxSaved /\ DetectLong
  \/ Len(save_lines) < MaxSaved /\ SaveAny
  \/ Construct

SpecSave == Init /\ [][NextSave]_vars

\* the controller: switches connect and disconnect, packets arrive
NextController ==
  \/ packets_analyzed < MaxPackets /\ PacketAny
  \/ detection_count < MaxHandled /\ DetectHandledAny
  \/ \E dpid \in Dpids : Len(sent) < MaxUps * Len(FlowPorts) /\ ConnectionUp(dpid)
  \/ \E dpid \in Dpids : dpid \in connections /\ ConnectionDown(dpid)
  \/ ControllerStatistics

SpecController == Init /\ [][NextController]_vars

\* _calculate_risk_level on every set of at most MaxMatched signatures; it
\* reads and writes no detector state, so each call starts from Init
NextRisk == call.op = "__init__" /\ CalculateAny

SpecRisk == Init /\ [][NextRisk]_vars

\* ------------------------------------------------------------------------
\* Properties
\* ------------------------------------------------------------------------

\* the signatures (pattern ids) with a match somewhere in the once-decoded
\* content, for each input content
MatchingSignatures ==
  [c \in Contents |->
     LET decoded == unquote_plus(c) IN
     {i - 1 : i \in {j \in 1..Len(compiled_patterns) :
                       \E p \in 1..Len(decoded) :
                          MatchFrom(compiled_patterns[j], 1, decoded, p) # 0}}]

IsDetectCall == call.op = "detect_xss"

C2_DetectedIffMatches ==
  /\ IsDetectCall =>
       /\ ret.detected <=> ret.patterns # <<>>
       /\ ~ret.detected => ret.risk_level = "low"
  /\ call.op = "analyze_http_request" =>
       \A i \in 1..Len(ret.results) :
          ret.results[i].detected /\ ret.results[i].patterns # <<>>

C2_Witness ==
  /\ IsDetectCall
  /\ ret.detected
  /\ Len(ret.patterns) >= 2

\* the severity tier _calculate_risk_level gives a signature on its own
Severity(pid) ==
  IF pid \in high_risk_patterns THEN "high"
  ELSE IF pid \in medium_risk_patterns THEN "medium"
  ELSE "low"

Rank == [high |-> 3, medium |-> 2, low |-> 1]

\* C3: the risk computed for a non-empty set of matched signatures is the
\* maximum severity (high > medium > low) over those signatures.
C3_RiskIsMaxSeverity ==
  call.op = "_calculate_risk_level" =>
    LET tiers == {Severity(call.patterns[i].pattern_id) : i \in 1..Len(call.patterns)} IN
    /\ ret \in tiers
    /\ \A t \in tiers : Rank[t] <= Rank[ret]

C3_Witness ==
  /\ call.op = "_calculate_risk_level"
  /\ {call.patterns[i].pattern_id : i \in 1..Len(call.patterns)} = {8, 11}
  /\ ret = "high"

\* the signatures the catalog description rates high: script tag and
\* script URI, event handlers, sink calls
DescribedHigh == {0, 1, 2} \cup {3, 4, 5, 6, 7} \cup {8, 11, 12, 13, 22, 23, 24, 25}

\* the signatures it rates medium: generic HTML injection
DescribedMedium == {14, 15, 16, 17, 18}

Range(seq) == {seq[i] : i \in 1..Len(seq)}

\* C5: content whose once-decoded form has no substring matching any
\* signature is not detected: detected = false, no matches, risk "low".
\* This holds of every safe payload of the test suite and of content that
\* would match only after a second decoding pass.
C5_NoMatchNotDetected ==
  IsDetectCall =>
    /\ MatchingSignatures[call.content] = {} => ret = NotDetected
    /\ call.content \in Range(safe_payloads) \cup { <<"%","2","5","6","1","l","e","r","t","(","1",")">> } => ret = NotDetected

C5_Witness ==
  /\ IsDetectCall
  /\ call.content = <<"<","b",">","B","o","l","d"," ","t","e","x","t","<","/","b",">">>
  /\ MatchingSignatures[call.content] = {}
  /\ ret = NotDetected
  /\ detection_count > 0

\* C6: content of at least the minimum length whose once-decoded form has
\* a substring matching a signature is detected; every malicious payload of
\* the test suite is detected, and "<script>alert('XSS')</script>" with
\* risk "high".
C6_MatchDetected ==
  IsDetectCall =>
    /\ Len(call.content) >= MinLength /\ MatchingSignatures[call.content] # {}
         => ret.detected
    /\ call.content \in Range(xss_payloads) => ret.detected
    /\ call.content = xss_payloads[1] => ret.risk_level = "high"

C6_Witness ==
  /\ IsDetectCall
  /\ call.content = <<"'",";","a","l","e","r","t","(","'","X","S","S","'",")",";","/","/">>
  /\ MatchingSignatures[call.content] = {8}
  /\ ret.detected

\* C7: a detect_xss call that returns detected = false changes neither
\* detection_count nor attack_log nor the emitted log lines, for empty and for
\* non-matching content.
C7_NotDetectedNoEffect ==
  [][call'.op = "detect_xss" /\ ~ret'.detected
       => UNCHANGED <<detection_count, attack_log, log_lines>>]_vars

C7_Witness ==
  /\ IsDetectCall
  /\ call.content = <<"n","o","r","m","a","l"," ","s","e","a","r","c","h"," ","q","u","e","r","y">>
  /\ ~ret.detected
  /\ detection_count = 1
  /\ Len(attack_log) = 1
  /\ Len(log_lines) = 1

\* C8: a detect_xss call that returns detected = true increments
\* detection_count by one, appends one record with the call's source_ip and
\* url, the matches, the risk and the sample of the decoded content to the
\* end of attack_log, emits one log line for it, and returns that record as
\* attack_info.
C8_DetectedRecordedOnce ==
  [][call'.op = "detect_xss" /\ ret'.detected
       => /\ detection_count' = detection_count + 1
          /\ attack_log' = Append(attack_log, ret'.attack_info)
          /\ ret'.attack_info.source_ip = call'.source_ip
          /\ ret'.attack_info.url = call'.url
          /\ ret'.attack_info.detected_patterns = ret'.patterns
          /\ ret'.attack_info.risk_level = ret'.risk_level
          /\ ret'.attack_info.content_sample = Take(unquote_plus(call'.content), SampleLen)
          /\ log_lines' = Append(log_lines,
               [level |-> "WARNING", source |-> call'.source_ip, url |-> call'.url,
                risk |-> ret'.risk_level, patterns |-> Len(ret'.patterns)])]_vars

C8_Witness ==
  /\ IsDetectCall
  /\ ret.detected
  /\ call.content = <<"%","3","C","S","c","R","i","P","t","%","3","E">>
  /\ Len(attack_log) = 2
  /\ attack_log[2] = ret.attack_info
  /\ Len(log_lines) = 2

Count(seq, t) == Cardinality({i \in 1..Len(seq) : seq[i] = t})

\* the statistics agree with what the detect_xss invocations returned
StatisticsMatchReturned ==
  LET s == get_statistics(Self) IN
  /\ s.total_detections = Len(returned)
  /\ \A t \in {"high", "medium", "low"} : s.risk_levels[t] = Count(returned, t)
  /\ s.total_detections = s.risk_levels.high + s.risk_levels.medium + s.risk_levels.low

\* C9: after any sequence of calls, get_statistics reports total_detections
\* equal to the number of detect_xss invocations that returned detected =
\* true and, per tier, the number of those whose risk was that tier, so the
\* total is the sum of the three tiers; detection_count never decreases.
C9_StatisticsCount ==
  /\ []StatisticsMatchReturned
  /\ [][detection_count' >= detection_count]_vars

C9_Witness ==
  /\ Len(returned) > RecentLen
  /\ SubSeq(returned, 1, 5) = <<"high", "high", "low", "medium", "high">>
  /\ Count(returned, "low") = 2
  /\ call.op = "get_statistics"
  /\ ret.total_detections = Len(returned)

IsPrefix(s, t) == Len(s) <= Len(t) /\ SubSeq(t, 1, Len(s)) = s

Min(a, b) == IF a < b THEN a ELSE b

\* C11: in every get_statistics snapshot, recent_attacks holds min(n, 10)
\* records, n being the number of detections so far, and they are the most
\* recent detections in the order they occurred (the record of detection
\* n - k + i at position i of k); patterns_loaded is the catalog size, the
\* same in every snapshot.
C11_RecentAttacks ==
  call.op = "get_statistics" =>
    LET n == Len(returned)
        k == Min(n, RecentLen)
    IN /\ Len(ret.recent_attacks) = k
       /\ \A i \in 1..k :
            /\ ret.recent_attacks[i].timestamp = n - k + i
            /\ ret.recent_attacks[i].risk_level = returned[n - k + i]
       /\ ret.patterns_loaded = Len(compiled_patterns)

C11_Witness ==
  /\ call.op = "get_statistics"
  /\ Len(returned) = RecentLen + 1
  /\ ret.recent_attacks[1].timestamp = 2
  /\ ret.recent_attacks[RecentLen].timestamp = RecentLen + 1
  /\ ret.patterns_loaded = 26


IsRequestCall == call.op = "analyze_http_request"

\* the places of the request last analysed that the analysis looks at, in
\* order: the URL, each header named User-Agent, Referer or X-Forwarded-For
\* in any casing, the body when it is not empty
InspectedPlaces ==
  <<[tag |-> <<"U","R","L">>, content |-> call.url]>>
    \o [i \in 1..Len(SelectSeq(call.headers,
                               LAMBDA h : lower(h.name) \in InspectedHeaders)) |->
          LET h == SelectSeq(call.headers,
                             LAMBDA x : lower(x.name) \in InspectedHeaders)[i]
          IN [tag |-> <<"H","e","a","d","e","r","-">> \o h.name, content |-> h.value]]
    \o (IF call.body = <<>> THEN <<>>
        ELSE <<[tag |-> <<"B","o","d","y">>, content |-> call.body]>>)

\* those of them whose content matches a signature
DetectingPlaces ==
  SelectSeq(InspectedPlaces,
            LAMBDA p : p.content # <<>> /\ MatchingSignatures[p.content] # {})

RECURSIVE SumLen(_)
SumLen(results) ==
  IF results = <<>> THEN 0 ELSE Len(Head(results).patterns) + SumLen(Tail(results))

\* C12: for every analyze_http_request call, detected is the logical OR of
\* the per-location detections (URL, each inspected header, body), results
\* holds exactly the locations that detected, in order, and total_detections
\* is the number of those locations (the length of results), not the number
\* of signatures matched across them.
C12_VerdictAggregates ==
  IsRequestCall =>
    /\ ret.detected = (DetectingPlaces # <<>>)
    /\ Len(ret.results) = Len(DetectingPlaces)
    /\ \A i \in 1..Len(ret.results) :
         /\ ret.results[i].location = DetectingPlaces[i].tag
         /\ ret.results[i].detected
         /\ {e.pattern_id : e \in Range(ret.results[i].patterns)}
              = MatchingSignatures[DetectingPlaces[i].content]
    /\ ret.total_detections = Len(ret.results)

C12_Witness ==
  /\ IsRequestCall
  /\ ret.detected
  /\ ret.total_detections = 3
  /\ Len(InspectedPlaces) = 3
  /\ SumLen(ret.results) > 3


\* User-Agent, Referer and X-Forwarded-For, ignoring case
NamedHeaders == {lower(<<"U","s","e","r","-","A","g","e","n","t">>), lower(<<"R","e","f","e","r","e","r">>), lower(<<"X","-","F","o","r","w","a","r","d","e","d","-","F","o","r">>)}

\* the headers of the request last analysed that carry one of these names
\* and a value matching a signature
DetectingHeaders ==
  {j \in 1..Len(call.headers) :
     /\ lower(call.headers[j].name) \in NamedHeaders
     /\ call.headers[j].value # <<>>
     /\ MatchingSignatures[call.headers[j].value] # {}}

\* 1 if the content is scanned and matches a signature, else 0
Hit(content) == IF content # <<>> /\ MatchingSignatures[content] # {} THEN 1 ELSE 0

\* C13: analyze_http_request inspects a header only when its name is
\* User-Agent, Referer or X-Forwarded-For ignoring case: the results tagged
\* with a header are exactly those of the so named headers whose value is
\* detected, each tagged "Header-" followed by the name as supplied, and the
\* call adds to detection_count and to the history only the detections of
\* the URL, of these headers and of the body, whatever the other headers
\* carry.
C13_OnlyNamedHeaders ==
  /\ [](IsRequestCall =>
          LET tagged == {i \in 1..Len(ret.results) :
                           ret.results[i].location \notin {<<"U","R","L">>, <<"B","o","d","y">>}}
          IN /\ \A i \in tagged : \E j \in DetectingHeaders :
                  ret.results[i].location = <<"H","e","a","d","e","r","-">> \o call.headers[j].name
             /\ \A j \in DetectingHeaders : \E i \in tagged :
                  ret.results[i].location = <<"H","e","a","d","e","r","-">> \o call.headers[j].name
             /\ Cardinality(tagged) = Cardinality(DetectingHeaders))
  /\ [][IsRequestCall' =>
          LET n == Hit(call'.url) + Cardinality(DetectingHeaders') + Hit(call'.body)
          IN /\ detection_count' = detection_count + n
             /\ Len(attack_log') = Len(attack_log) + n
             /\ IsPrefix(attack_log, attack_log')]_vars

\* a payload in a header with another name between two named headers that
\* are detected: two results, tagged with the names as supplied, two
\* detections recorded
C13_Witness ==
  /\ IsRequestCall
  /\ Len(call.headers) = 3
  /\ lower(call.headers[2].name) \notin NamedHeaders
  /\ MatchingSignatures[call.headers[2].value] # {}
  /\ ret.total_detections = 2
  /\ ret.results[1].location = <<"H","e","a","d","e","r","-","u","s","e","r","-","a","g","e","n","t">>
  /\ ret.results[2].location = <<"H","e","a","d","e","r","-","R","e","f","e","r","e","r">>
  /\ detection_count = 2
  /\ Len(attack_log) = 2


\* no header of the request last analysed, whatever its name, carries a
\* value matching a signature
HeadersClean == \A j \in 1..Len(call.headers) : Hit(call.headers[j].value) = 0

\* C14: when exactly one location of a request carries a payload and the
\* others are clean, analyze_http_request returns detected = true and
\* exactly one result, tagged with that location: "Body" for a payload in
\* the body alone (URL and headers clean), "URL" for a payload in the URL
\* alone with no headers and an empty body; a request clean in every
\* location yields detected = false and no results.
C14_SingleLocation ==
  IsRequestCall =>
    /\ (Hit(call.url) = 0 /\ HeadersClean /\ Hit(call.body) = 1) =>
         /\ ret.detected
         /\ Len(ret.results) = 1
         /\ ret.results[1].location = <<"B","o","d","y">>
    /\ (Hit(call.url) = 1 /\ call.headers = <<>> /\ call.body = <<>>) =>
         /\ ret.detected
         /\ Len(ret.results) = 1
         /\ ret.results[1].location = <<"U","R","L">>
    /\ (Hit(call.url) = 0 /\ Hit(call.body) = 0 /\ Len(call.headers) = 1
          /\ Cardinality(DetectingHeaders) = 1) =>
         /\ ret.detected
         /\ Len(ret.results) = 1
         /\ ret.results[1].location = <<"H","e","a","d","e","r","-">> \o call.headers[1].name
    /\ (Hit(call.url) = 0 /\ HeadersClean /\ Hit(call.body) = 0) =>
         /\ ~ret.detected
         /\ ret.results = <<>>
         /\ ret.total_detections = 0

\* the payload in the body alone
C14_Witness ==
  /\ IsRequestCall
  /\ Hit(call.url) = 0
  /\ call.headers # <<>> /\ HeadersClean
  /\ Hit(call.body) = 1
  /\ ret.detected
  /\ Len(ret.results) = 1
  /\ ret.results[1].location = <<"B","o","d","y">>


\* detected, matches and risk of a detect_xss result
Verdict(result) ==
  [detected |-> result.detected, patterns |-> result.patterns,
   risk_level |-> result.risk_level]

\* a detector on which nothing was detected yet
Fresh == [detection_count |-> 0, attack_log |-> <<>>, log_lines |-> <<>>, clock |-> 0]

\* C15: the verdict of detect_xss is a function of its arguments alone: the
\* detected flag, the matches and the risk returned in any detector state,
\* after any other calls, are those the same arguments give on a fresh
\* detector and those a further identical call gives right after, so the
\* verdict does not depend on detection_count or on the history.
C15_VerdictDeterministic ==
  IsDetectCall =>
    /\ Verdict(ret)
         = Verdict(detect_xss(Fresh, call.content, call.source_ip, call.url).result)
    /\ Verdict(ret)
         = Verdict(detect_xss(Self, call.content, call.source_ip, call.url).result)

\* the second of two identical detecting calls: same arguments, another
\* detector state, same verdict
C15_Witness ==
  /\ IsDetectCall
  /\ ret.detected
  /\ detection_count = 2
  /\ Len(attack_log) = 2
  /\ attack_log[1].source_ip = call.source_ip
  /\ attack_log[1].url = call.url
  /\ attack_log[1].content_sample = unquote_plus(call.content)
  /\ attack_log[1].timestamp # ret.attack_info.timestamp
  /\ attack_log[1].detected_patterns = ret.patterns
  /\ attack_log[1].risk_level = ret.risk_level
  /\ ret.risk_level = "medium"


\* the risk detect_xss returns for a content on its own
RiskAlone(content) ==
  detect_xss(Fresh, content, call.source_ip, call.url).result.risk_level

\* the call was made on a content followed by a payload rated high on its own
IsConcatCall ==
  /\ IsDetectCall
  /\ "tail" \in DOMAIN call
  /\ RiskAlone(call.tail) = "high"

\* the content ends inside a percent escape: "%" or "%" and one hex digit
EndsInEscape(c) ==
  \/ Len(c) >= 1 /\ c[Len(c)] = "%"
  \/ Len(c) >= 2 /\ c[Len(c) - 1] = "%" /\ c[Len(c)] \in HexChars

\* C16 as stated: for every content c and every payload p rated "high", the
\* risk of detect_xss on c followed by p is not lower than the risk on c
\* alone, and is "high".
C16_ConcatIsHigh ==
  IsConcatCall =>
    /\ Rank[ret.risk_level] >= Rank[RiskAlone(call.head)]
    /\ ret.risk_level = "high"

\* C16 amended: for every content c and every payload p rated "high", the
\* risk of detect_xss on c followed by p is not lower than the risk on c
\* alone; it is "high" when c does not end inside a percent escape, which
\* the first characters of p would complete into another character.
C16_ConcatNotLower ==
  IsConcatCall =>
    /\ Rank[ret.risk_level] >= Rank[RiskAlone(call.head)]
    /\ ~EndsInEscape(call.head) => ret.risk_level = "high"

\* "alert(1)%6" followed by "confirm(1)" decodes to "alert(1)lonfirm(1)":
\* medium as the content alone, not high
C16_Witness ==
  /\ IsConcatCall
  /\ EndsInEscape(call.head)
  /\ RiskAlone(call.head) = "medium"
  /\ ret.detected
  /\ ret.risk_level = "medium"


\* C17: matching is exhaustive: the matches detect_xss returns hold exactly
\* one record for each signature that matches the decoded content, none
\* missing and none twice, in ascending order of signature id, each with
\* the signature's source and its matched substrings.
C17_MatchesExhaustive ==
  IsDetectCall =>
    /\ {e.pattern_id : e \in Range(ret.patterns)} = MatchingSignatures[call.content]
    /\ Len(ret.patterns) = Cardinality(MatchingSignatures[call.content])
    /\ \A i \in 1..Len(ret.patterns) :
         /\ i > 1 => ret.patterns[i - 1].pattern_id < ret.patterns[i].pattern_id
         /\ ret.patterns[i].pattern = xss_patterns[ret.patterns[i].pattern_id + 1]
         /\ ret.patterns[i].matches # <<>>

\* three signatures match "<script>alert('XSS')</script>": the paired script
\* tag, the opening script tag and alert(
C17_Witness ==
  /\ IsDetectCall
  /\ Len(ret.patterns) = 3
  /\ ret.patterns[1].pattern_id = 0
  /\ ret.patterns[2].pattern_id = 1
  /\ ret.patterns[3].pattern_id = 8


\* contents with percent escapes and what one decoding pass makes of them
OnceDecoded ==
  (<<"%","2","5","3","C","s","c","r","i","p","t","%","2","5","3","E">> :> <<"%","3","C","s","c","r","i","p","t","%","3","E">>)
    @@ (<<"%","2","5","3","C","s","c","r","i","p","t","%","2","5","3","E","a","l","e","r","t","(","'","X","S","S","'",")","%","2","5","3","C","/","s","c","r","i","p","t","%","2","5","3","E">>
          :> <<"%","3","C","s","c","r","i","p","t","%","3","E","a","l","e","r","t","(","'","X","S","S","'",")","%","3","C","/","s","c","r","i","p","t","%","3","E">>)
    @@ (<<"%","2","5","6","1","l","e","r","t","(","1",")">> :> <<"%","6","1","l","e","r","t","(","1",")">>)
    @@ (<<"%","3","C","s","c","r","i","p","t","%","3","E">> :> <<"<","s","c","r","i","p","t",">">>)
    @@ (<<"%","3","C","S","c","R","i","P","t","%","3","E">> :> <<"<","S","c","R","i","P","t",">">>)
    @@ (<<"%","F","F","e","v","a","l","(","1",")">> :> <<REPLACEMENT>> \o <<"e","v","a","l","(","1",")">>)
    @@ (<<"%","z","z","a","l","e","r","t","(","1",")">> :> <<"%","z","z","a","l","e","r","t","(","1",")">>)
    @@ (<<"a","l","e","r","t","(","1",")","%","4">> :> <<"a","l","e","r","t","(","1",")","%","4">>)
    @@ (<<"%">> :> <<"%">>)
    @@ (<<"o","n","l","o","a","d","+","=","1">> :> <<"o","n","l","o","a","d"," ","=","1">>)

\* the signatures with a match in each of these decoded forms
OnceDecodedSignatures ==
  [c \in DOMAIN OnceDecoded |->
     {j - 1 : j \in {k \in 1..Len(compiled_patterns) :
                       \E p \in 1..Len(OnceDecoded[c]) :
                          MatchFrom(compiled_patterns[k], 1, OnceDecoded[c], p) # 0}}]

\* C18: detect_xss matches the signatures against the content decoded
\* exactly once: content encoded twice is matched in its once-decoded form
\* ("%253Cscript%253E" as "%3Cscript%3E", which no signature matches) and
\* is not unwrapped a second time, content encoded once is matched decoded,
\* and an escape that cannot be decoded is kept or replaced without making
\* the call fail: the call returns its verdict on what is left.
C18_DecodedOnce ==
  (IsDetectCall /\ call.content \in DOMAIN OnceDecoded) =>
    /\ ret.detected \in BOOLEAN
    /\ ret.detected = (OnceDecodedSignatures[call.content] # {})
    /\ {e.pattern_id : e \in Range(ret.patterns)} = OnceDecodedSignatures[call.content]
    /\ ret.detected =>
         ret.attack_info.content_sample = Take(OnceDecoded[call.content], SampleLen)

\* the doubly encoded script tag after the singly encoded one: the first is
\* recorded decoded, the second is not detected
C18_Witness ==
  /\ IsDetectCall
  /\ call.content = <<"%","2","5","3","C","s","c","r","i","p","t","%","2","5","3","E">>
  /\ ~ret.detected
  /\ detection_count = 1
  /\ attack_log[1].content_sample = <<"<","s","c","r","i","p","t",">">>
  /\ attack_log[1].detected_patterns[1].pattern_id = 1


IsSaveCall == call.op = "save_log_to_file"

\* the attack records a file holds whole: those of which it has every line
RecordsIn(lines) ==
  {r \in UNION {Range(lines[i].record) : i \in 1..Len(lines)} :
     \A k \in 1..Len(attack_info_keys) :
        \E i \in 1..Len(lines) :
           lines[i].text = attack_info_keys[k] /\ lines[i].record = <<r>>}

\* C19: save_log_to_file writes the attack log one record per line, in
\* append mode, and never overwrites prior entries: the lines the file held
\* before the call, from an earlier call or from another detector instance,
\* are still there, unchanged, after it, and so are the records in them.
C19_SaveAppends ==
  /\ [](\A f \in Filenames : \A i \in 1..Len(files[f]) :
          files[f][i].text = "record")
  /\ [][IsSaveCall' =>
          \A f \in Filenames :
            /\ IsPrefix(files[f], files'[f])
            /\ RecordsIn(files[f]) \subseteq RecordsIn(files'[f])]_vars


\* what save_log_to_file returns when the storage takes the save
SavedValue(f) ==
  save_log_to_file(Self, files, f,
                   [sink |-> "ok", written |-> Len(json_dump(attack_log))]).result

\* C20: when the storage fails during a save, save_log_to_file returns a
\* failure indication its caller can tell from the success outcome, leaves
\* no partially written file (the file holds what it held before or the
\* whole log), and leaves detection_count and the attack history unchanged.
C20_SaveFailureReported ==
  /\ []((IsSaveCall /\ call.sink # "ok") => ret.value # SavedValue(call.filename))
  /\ [][(IsSaveCall' /\ call'.sink # "ok") =>
          /\ \A f \in Filenames : files'[f] \in {files[f], json_dump(attack_log)}
          /\ detection_count' = detection_count
          /\ attack_log' = attack_log]_vars


IsPacketCall == call.op = "_handle_PacketIn"

\* C21: a failure of a log sink while a detected attack is recorded (the
\* logging handler under detect_xss, the attack file under the packet
\* handler) does not reach the caller and does not change the verdict: the
\* call returns what it returns when the write succeeds, and the detection
\* is counted the same in detection_count, in the history and in the
\* controller's xss_detected.
C21_SinkFailureHarmless ==
  [][/\ (call'.op = "detect_xss" /\ "handler" \in DOMAIN call' /\ call'.handler = "fails") =>
          LET good == detect_xss(Self, call'.content, call'.source_ip, call'.url) IN
          /\ ret' = good.result
          /\ detection_count' = good.self.detection_count
          /\ attack_log' = good.self.attack_log
     /\ (IsPacketCall' /\ call'.env.fault = "none") =>
          LET good == _handle_PacketIn(Self, Ctl, call'.packet, AllOk) IN
          /\ ret'.value = "None"
          /\ returned' = returned \o DetectedRisks(good.results)
          /\ detection_count' = good.self.detection_count
          /\ attack_log' = good.self.attack_log
          /\ xss_detected' = good.ctl.xss_detected
          /\ packets_analyzed' = good.ctl.packets_analyzed]_vars

\* the attack file fails under a request with three triggering locations:
\* three detections, one detected packet, nothing in the file
C21_Witness ==
  /\ IsPacketCall
  /\ call.env.file = "fails"
  /\ detection_count = 3
  /\ Len(attack_log) = 3
  /\ xss_detected = 1
  /\ packets_analyzed = 1
  /\ pox_file = <<>>


\* ------------------------------------------------------------------------
\* Threads: detect_xss and get_statistics called on one XSSDetector from
\* several threads.  The class takes no lock, so a thread can be preempted
\* between any two accesses of self.detection_count and self.attack_log.
\* ------------------------------------------------------------------------

\* lines 80-113 in thread t: the content is decoded and scanned, which
\* touches no shared state, and the thread stands before line 116 or returns
ThreadCall(t, content) ==
  /\ threads[t].pc = "idle"
  /\ \E detected_patterns \in {Scanned[content].detected_patterns} :
       threads' = [threads EXCEPT ![t] =
         IF is_detected(detected_patterns)
         THEN [pc |-> "load", content |-> content]
         ELSE [pc |-> "done", content |-> content, result |-> NotDetected]]
  /\ UNCHANGED <<detection_count, attack_log, log_lines, clock, call, ret, returned,
                 files, save_lines, reader>>
  /\ UNCHANGED ctlvars

\* line 116, first half: self.detection_count is read
ThreadLoad(t) ==
  /\ threads[t].pc = "load"
  /\ threads' = [threads EXCEPT ![t] =
       [pc |-> "store", content |-> @.content, loaded |-> detection_count]]
  /\ UNCHANGED <<detection_count, attack_log, log_lines, clock, call, ret, returned,
                 files, save_lines, reader>>
  /\ UNCHANGED ctlvars

\* line 116, second half: the value read plus one is written back
ThreadStore(t) ==
  /\ threads[t].pc = "store"
  /\ detection_count' = threads[t].loaded + 1
  /\ threads' = [threads EXCEPT ![t] = [pc |-> "append", content |-> @.content]]
  /\ UNCHANGED <<attack_log, log_lines, clock, call, ret, returned, files, save_lines, reader>>
  /\ UNCHANGED ctlvars

\* lines 117-129: the risk level, attack_info with the time read now, and
\* self.attack_log.append(attack_info)
ThreadAppend(t) ==
  /\ threads[t].pc = "append"
  /\ \E d \in {Scanned[threads[t].content]} :
     \E attack_info \in
         {[timestamp |-> clock + 1, source_ip |-> ThreadSources[t], url |-> <<"/","s","e","a","r","c","h">>,
           detected_patterns |-> d.detected_patterns,
           risk_level |-> _calculate_risk_level(d.detected_patterns),
           content_sample |-> Take(d.decoded_content, SampleLen)]} :
       /\ attack_log' = Append(attack_log, attack_info)
       /\ threads' = [threads EXCEPT ![t] =
            [pc |-> "log", content |-> @.content, attack_info |-> attack_info]]
  /\ clock' = clock + 1
  /\ UNCHANGED <<detection_count, log_lines, call, ret, returned, files, save_lines, reader>>
  /\ UNCHANGED ctlvars

\* lines 130-137: self._log_attack(attack_info) and the return
ThreadReturn(t) ==
  /\ threads[t].pc = "log"
  /\ \E attack_info \in {threads[t].attack_info} :
     \E result \in {[detected |-> TRUE, patterns |-> attack_info.detected_patterns,
                     risk_level |-> attack_info.risk_level, attack_info |-> attack_info]} :
       /\ log_lines' = Append(log_lines, _log_attack(attack_info))
       /\ threads' = [threads EXCEPT ![t] =
            [pc |-> "done", content |-> @.content, result |-> result]]
       /\ call' = [op |-> "detect_xss", content |-> threads[t].content,
                   source_ip |-> ThreadSources[t], url |-> <<"/","s","e","a","r","c","h">>]
       /\ ret' = result
       /\ returned' = Append(returned, result.risk_level)
  /\ UNCHANGED <<detection_count, attack_log, clock, files, save_lines, reader>>
  /\ UNCHANGED ctlvars

\* get_statistics lines 210-213: the loop over self.attack_log
ReaderCount ==
  /\ reader.pc = "idle"
  /\ reader' = [pc |-> "total", counted |-> attack_log,
                risk_levels |-> count_risk_levels(attack_log, 1,
                                  [high |-> 0, medium |-> 0, low |-> 0])]
  /\ UNCHANGED <<detection_count, attack_log, log_lines, clock, call, ret, returned,
                 files, save_lines, threads>>
  /\ UNCHANGED ctlvars

\* line 216: self.detection_count is read
ReaderTotal ==
  /\ reader.pc = "total"
  /\ reader' = [pc |-> "recent", counted |-> reader.counted,
                risk_levels |-> reader.risk_levels, total_detections |-> detection_count]
  /\ UNCHANGED <<detection_count, attack_log, log_lines, clock, call, ret, returned,
                 files, save_lines, threads>>
  /\ UNCHANGED ctlvars

\* lines 218-220: self.attack_log[-10:] is read and the dictionary returned
ReaderReturn ==
  /\ reader.pc = "recent"
  /\ reader' = [pc |-> "done", counted |-> reader.counted]
  /\ call' = [op |-> "get_statistics"]
  /\ ret' = [total_detections |-> reader.total_detections,
             risk_levels      |-> reader.risk_levels,
             recent_attacks   |-> Last(attack_log, RecentLen),
             patterns_loaded  |-> Len(xss_patterns)]
  /\ UNCHANGED <<detection_count, attack_log, log_lines, clock, returned,
                 files, save_lines, threads>>
  /\ UNCHANGED ctlvars

ThreadCallAny == \E t \in Tids : \E content \in ThreadContents : ThreadCall(t, content)

NextThreads ==
  \/ ThreadCallAny
  \/ \E t \in Tids : ThreadLoad(t)
  \/ \E t \in Tids : ThreadStore(t)
  \/ \E t \in Tids : ThreadAppend(t)
  \/ \E t \in Tids : ThreadReturn(t)
  \/ ReaderCount
  \/ ReaderTotal
  \/ ReaderReturn

SpecThreads == Init /\ [][NextThreads]_vars

\* the threads that have returned, and those that returned detected = True
ThreadsDone == \A t \in Tids : threads[t].pc = "done"
DetectingThreads == {t \in Tids : threads[t].pc = "done" /\ threads[t].result.detected}

\* C22: once every concurrent detect_xss call has returned, detection_count
\* and the length of the history both equal the number of calls that
\* returned detected = True: no update is lost under any interleaving.
C22_NoLostUpdate ==
  ThreadsDone =>
    /\ detection_count = Cardinality(DetectingThreads)
    /\ Len(attack_log) = Cardinality(DetectingThreads)

\* C23: every dictionary get_statistics returns, also while detect_xss calls
\* are in progress in other threads, has total_detections equal to the sum
\* of its risk_levels, and recent_attacks is the tail of the history the
\* risk levels were counted over.
C23_SnapshotConsistent ==
  (call.op = "get_statistics" /\ reader.pc = "done") =>
    /\ ret.total_detections
         = ret.risk_levels.high + ret.risk_levels.medium + ret.risk_levels.low
    /\ ret.recent_attacks = Last(reader.counted, RecentLen)


\* every match of every signature in the decoded content of the calls of
\* SizedCalls, evaluated once
AllMatches ==
  [c \in {k.content : k \in SizedCalls} |->
     [i \in 1..Len(compiled_patterns) |-> findall(compiled_patterns[i], unquote_plus(c))]]

FirstFive(matches) == SubSeq(matches, 1, IF Len(matches) < 5 THEN Len(matches) ELSE 5)
First200(text) == SubSeq(text, 1, IF Len(text) < 200 THEN Len(text) ELSE 200)

\* C24: records and results are bounded in size whatever the input: every
\* entry of detected_patterns holds at most five matched substrings, the
\* first five the signature finds in the decoded content, in order, and
\* content_sample is the first min(200, length) characters of the decoded
\* content; the record appended to the history is the one returned.
C24_SizeBounded ==
  /\ \A i \in 1..Len(attack_log) :
       /\ Len(attack_log[i].content_sample) <= 200
       /\ \A k \in 1..Len(attack_log[i].detected_patterns) :
            Len(attack_log[i].detected_patterns[k].matches) \in 1..5
  /\ (call.op = "detect_xss" /\ ret.detected) =>
       /\ attack_log[Len(attack_log)] = ret.attack_info
       /\ ret.attack_info.detected_patterns = ret.patterns
       /\ ret.attack_info.content_sample = First200(unquote_plus(call.content))
       /\ \A k \in 1..Len(ret.patterns) :
            ret.patterns[k].matches
              = FirstFive(AllMatches[call.content][ret.patterns[k].pattern_id + 1])

\* a content of more than 200 characters in which alert( is found seven
\* times: five matches and 200 characters are kept
C24_Witness ==
  /\ call.op = "detect_xss"
  /\ ret.detected
  /\ Len(unquote_plus(call.content)) > 200
  /\ Len(ret.attack_info.content_sample) = 200
  /\ \E k \in 1..Len(ret.patterns) :
       /\ Len(AllMatches[call.content][ret.patterns[k].pattern_id + 1]) = 7
       /\ ret.patterns[k].matches
            = << <<"a","l","e","r","t","(">>, <<"a","l","e","r","t"," ","(">>, <<"A","L","E","R","T","(">>, <<"a","l","e","r","t"," "," ","(">>, <<"A","l","e","r","t","(">> >>


\* C25: nothing is blocked: every flow rule the controller has sent outputs
\* to the controller and to NORMAL, none is without actions, and handling a
\* packet, whatever is detected in it, sends no message at all; a detection
\* shows in the counters and the attack file only.
C25_NoBlocking ==
  /\ [](\A i \in 1..Len(sent) :
          /\ sent[i].actions = <<"OFPP_CONTROLLER", "OFPP_NORMAL">>
          /\ sent[i].nw_src = "")
  /\ [][IsPacketCall' => sent' = sent]_vars

\* a switch is connected, a packet was detected and written to the attack
\* file, and the six capture rules are all that was sent
C25_Witness ==
  /\ IsPacketCall
  /\ xss_detected = 1
  /\ Len(pox_file) = 1
  /\ Len(sent) = 6
  /\ connections # {}


MonitoredPorts == {80, 443, 8080, 8000, 3000, 5000}

\* C26: the six ports the controller announces are monitored: a connecting
\* switch is sent a capture rule for each of them, and every parsed IPv4/TCP
\* packet with one of them as source or destination port is handed to
\* _analyze_http_packet before it is counted in packets_analyzed.
C26_SixPortsMonitored ==
  /\ call.op = "_handle_ConnectionUp" =>
       \A port \in MonitoredPorts :
         \E i \in 1..Len(sent) :
           sent[i].tp_dst = port /\ "OFPP_CONTROLLER" \in {sent[i].actions[k] : k \in 1..Len(sent[i].actions)}
  /\ (/\ IsPacketCall
      /\ call.packet.parsed /\ call.packet.type = "IP" /\ call.packet.protocol = "TCP"
      /\ (call.packet.dstport \in MonitoredPorts \/ call.packet.srcport \in MonitoredPorts)) =>
       call.analysed /\ packets_analyzed > 0


\* C27: one analyze_http_request call raises detection_count and the length
\* of the history by the total_detections it returns, one record per
\* location that triggered, each with the request's URL and source address;
\* get_statistics then reports that many more detections, and a request
\* with detected = False changes neither.
C27_RequestCountsLocations ==
  [][call'.op = "analyze_http_request" =>
       /\ ret'.total_detections = Len(ret'.results)
       /\ ret'.detected = (ret'.total_detections > 0)
       /\ detection_count' = detection_count + ret'.total_detections
       /\ Len(attack_log') = Len(attack_log) + ret'.total_detections
       /\ SubSeq(attack_log', 1, Len(attack_log)) = attack_log
       /\ \A i \in 1..ret'.total_detections :
            /\ attack_log'[Len(attack_log) + i].url = call'.url
            /\ attack_log'[Len(attack_log) + i].source_ip = call'.source_ip
            /\ attack_log'[Len(attack_log) + i] = ret'.results[i].attack_info
       /\ get_statistics(Self)'.total_detections
            = get_statistics(Self).total_detections + ret'.total_detections
       /\ ~ret'.detected => UNCHANGED <<detection_count, attack_log>>]_vars

\* a request whose URL, inspected header and body all trigger, after an
\* earlier detection: three more detections, each under the request's URL
C27_Witness ==
  /\ call.op = "analyze_http_request"
  /\ ret.total_detections = 3
  /\ detection_count = 4
  /\ Len(attack_log) = 4
  /\ \A i \in 2..4 : attack_log[i].url = call.url
  /\ {ret.results[i].location : i \in 1..3} = {<<"U","R","L">>, <<"H","e","a","d","e","r","-","X","-","F","o","r","w","a","r","d","e","d","-","F","o","r">>, <<"B","o","d","y">>}


IsTcpPacket(packet) == packet.parsed /\ packet.type = "IP" /\ packet.protocol = "TCP"

\* C28: after every handler the controller's counters are ordered,
\* 0 <= xss_detected <= packets_analyzed and xss_detected <= detection_count
\* of the detector; a packet raises xss_detected by at most one, however
\* many locations triggered, and packets_analyzed by exactly one when it is
\* a parsed IPv4/TCP packet (analysed or not, also when the analysis raised
\* an exception) and not at all otherwise; the detection rate reported is
\* between 0 and 100.
C28_ControllerCounters ==
  /\ [](/\ 0 <= xss_detected
        /\ xss_detected <= packets_analyzed
        /\ xss_detected <= detection_count)
  /\ [](call.op = "controller.get_statistics" =>
          /\ ret.packets_analyzed = packets_analyzed
          /\ ret.xss_detected = xss_detected
          /\ ret.detection_rate.denominator > 0
          /\ 0 <= ret.detection_rate.numerator
          /\ ret.detection_rate.numerator <= 100 * ret.detection_rate.denominator)
  /\ [][IsPacketCall' =>
          /\ xss_detected' \in {xss_detected, xss_detected + 1}
          /\ packets_analyzed' = packets_analyzed + (IF IsTcpPacket(call'.packet) THEN 1 ELSE 0)
          /\ xss_detected' - xss_detected <= detection_count' - detection_count]_vars

\* statistics read after a request whose URL, header and body all
\* triggered: three detections in the detector, one detected packet out of
\* one, a rate of 100
C28_Witness ==
  /\ call.op = "controller.get_statistics"
  /\ ret.packets_analyzed = 1
  /\ ret.xss_detected = 1
  /\ ret.detector_stats.total_detections = 3
  /\ ret.detection_rate = [numerator |-> 100, denominator |-> 1]

====
